---- MODULE Spec2Model ----
(***************************************************************************)
(* Revenium metering middleware for goa-ai: the trace registry             *)
(* (Meter.traces), the trace resolution protocol of MeteringPlanner        *)
(* (ensureTraceContext), the event-observing MeteringSink, the payload     *)
(* stamping of meteringClient.Complete and the retrying delivery of        *)
(* Meter.sendWithRetry.                                                    *)
(*                                                                         *)
(* Strings of the program are strings here: run IDs, trace IDs, phases.    *)
(* The empty Go string "" is "".  A nil *TraceContext is a record whose    *)
(* has field is FALSE.                                                     *)
(***************************************************************************)
EXTENDS Integers, Sequences, FiniteSets, TLC

(***************************************************************************)
(* Bounds of the model.                                                    *)
(***************************************************************************)
\* uuid.New() is called at most MaxUUID times in one behaviour.
MaxUUID == 2

(***************************************************************************)
(* The runs of the model (run.Context): R1 and R3 are top-level runs, R2   *)
(* is a child run of R1.                                                   *)
(***************************************************************************)
Runs == {"R1", "R2", "R3"}

\* run.Context.ParentRunID of a run ("" for a top-level run).
ParentRunID(r) == IF r = "R2" THEN "R1" ELSE ""

\* Trace IDs an application may have put on a context by WithTraceContext.
ExtTraceIDs == {"ext-1"}

\* The trace name of the TraceContext that carries trace ID t on a caller's context:
\* the application names its own trace, a trace minted by the planner has no name.
TraceNameOf(t) == IF t \in ExtTraceIDs THEN "checkout" ELSE ""

\* Workflow phases of stream.Workflow events.
Phases == {"planning", "completed", "failed", "canceled"}

\* What the wrapped (inner) planner, client or sink returns.
InnerResults == {"ok", "err"}

VARIABLES
    traces,      \* Meter.traces: the sync.Map runID -> traceID, as a set of <<runID, traceID>>
    nextUUID,    \* the number of the next UUID uuid.New() returns
    tc,          \* per run: the TraceContext attached by its latest PlanStart/PlanResume
    runState,    \* per run: "idle", "active" (PlanStart has run), "done" (terminal event seen)
    payload,     \* the payload the last operation handed to SendAsync (has = FALSE: none)
    last,        \* the operation that produced this state, with what it read and returned
    e2e,         \* observer: how far the behaviour has followed the end-to-end scenario
    resolved,    \* observer, per run: the trace ID its latest resolution registered for it
    planning,    \* per run: the resolution under way that has not yet registered its trace ID
    thr,         \* per goroutine calling the registry: its call and how far it has got
    nOps,        \* the number of registry calls made so far
    rlast,       \* the latest sync.Map operation, with the registry it found
    removed,     \* per runID: UnregisterTrace took effect and no RegisterTrace since
    lin,         \* observer: the sequential explanations of the registry calls so far
    tasks,       \* per submitted payload: its background delivery task
    wg,          \* Meter.wg: the counter of the sync.WaitGroup
    flush,       \* the caller of Flush: its position and what it found
    callerDone,  \* the context of the caller of SendAsync is done
    stream,      \* the meteringStreamer of the stream of the behaviour
    clast,       \* the latest call of the model client, with what it returned
    wrapped,     \* the meteringPlannerContext of the plan call and the clients it returned
    wlast        \* the latest ModelClient call, or call of a client it returned

protoVars == <<nextUUID, tc, runState, payload, last, e2e, resolved, planning>>
regVars == <<thr, nOps, rlast, removed, lin>>
dlvVars == <<tasks, wg, flush, callerDone>>
strVars == <<stream, clast, wrapped, wlast>>
vars == <<traces, protoVars, regVars, dlvVars, strVars>>

(***************************************************************************)
(* sync.Map, as the set of its key/value pairs.                            *)
(***************************************************************************)
\* A map that kept the old value of a key next to the new one would not be a map.
StoreKeepsOld(m, k, v) == m \cup {<<k, v>>}

Store(m, k, v) == {e \in m : e[1] # k} \cup {<<k, v>>}

\* A load that saw no entry at all would miss completed stores.
LoadNeverFound(m, k) == [value |-> "", ok |-> FALSE]

Load(m, k) ==
    IF \E e \in m : e[1] = k
    THEN [value |-> (CHOOSE e \in m : e[1] = k)[2], ok |-> TRUE]
    ELSE [value |-> "", ok |-> FALSE]

Delete(m, k) == {e \in m : e[1] # k}

(***************************************************************************)
(* The trace registry of Meter.                                            *)
(***************************************************************************)
RegisterTrace(m, runID, traceID) == Store(m, runID, traceID)

LookupTrace(m, runID) ==
    LET l == Load(m, runID)
    IN  IF ~l.ok THEN [traceID |-> "", ok |-> FALSE]
        ELSE [traceID |-> l.value, ok |-> TRUE]

\* A clean-up that emptied the registry.
UnregisterTraceAll(m, runID) == {}

UnregisterTrace(m, runID) == Delete(m, runID)

(***************************************************************************)
(* TraceContext and its carrier.                                           *)
(***************************************************************************)
\* A generator that gave the same UUID every time.
NewUUIDReused(n) == "uuid-1"

\* uuid.New().String(): the n-th UUID of the process.
NewUUID(n) == "uuid-" \o ToString(n)

\* A nil *TraceContext (GetTraceContext of a context that carries none).
NilTraceContext ==
    [has |-> FALSE, TraceID |-> "", TraceName |-> "", TraceType |-> "",
     TransactionID |-> "", ParentTxnID |-> ""]

\* A WithTraceContext that replaced every trace ID, empty or not, by a new UUID.
WithTraceContextRenews(t, n) ==
    [tc |-> [t EXCEPT !.has = TRUE, !.TraceID = NewUUID(n)], next |-> n + 1]

\* WithTraceContext: the stored copy; an empty TraceID is replaced by a new UUID.
\* Gives the stored TraceContext and the next UUID number.
WithTraceContext(t, n) ==
    IF t.TraceID = ""
    THEN [tc |-> [t EXCEPT !.has = TRUE, !.TraceID = NewUUID(n)], next |-> n + 1]
    ELSE [tc |-> [t EXCEPT !.has = TRUE], next |-> n]

(***************************************************************************)
(* MeteringPlanner.ensureTraceContext for run r, called with a context     *)
(* whose TraceContext is existing, on registry m with next UUID number n.  *)
(* Gives the attached TraceContext, the registry and UUID number after,    *)
(* the branch taken and whether the warning was logged.                    *)
(***************************************************************************)
\* A child branch that never consulted the registry.
ChildResolveIgnoresParent(m, n, parent) ==
    [TraceID |-> NewUUID(n), next |-> n + 1, branch |-> "miss", warned |-> FALSE]

\* The child branch: the parent's trace ID when the registry has one, else a new
\* UUID and a warning.
ChildResolve(m, n, parent) ==
    LET l == LookupTrace(m, parent)
    IN  IF l.ok
        THEN [TraceID |-> l.traceID, next |-> n, branch |-> "hit", warned |-> FALSE]
        ELSE [TraceID |-> NewUUID(n), next |-> n + 1, branch |-> "miss", warned |-> TRUE]

\* The top-level branch: a new UUID.
TopLevelResolve(n) ==
    [TraceID |-> NewUUID(n), next |-> n + 1, branch |-> "toplevel", warned |-> FALSE]

\* An ambient branch that inherited the trace ID but not the trace name.
AmbientResolveDropsName(base, existing, parent) ==
    [base EXCEPT !.TraceID = existing.TraceID,
                 !.ParentTxnID = IF parent # "" THEN parent ELSE ""]

\* The ambient branch: the caller's trace ID and trace name, and the parent
\* transaction of a child run.
AmbientResolve(base, existing, parent) ==
    [base EXCEPT !.TraceID = existing.TraceID,
                 !.TraceName = existing.TraceName,
                 !.ParentTxnID = IF parent # "" THEN parent ELSE ""]

ensureTraceContext(m, n, r, existing) ==
    LET base == [has |-> TRUE, TraceID |-> "", TraceName |-> "", TraceType |-> "agent",
                 TransactionID |-> r, ParentTxnID |-> ""]
        parent == ParentRunID(r)
    IN  IF existing.has /\ existing.TraceID # ""
        THEN LET t == AmbientResolve(base, existing, parent)
                 w == WithTraceContext(t, n)
             IN  [tc |-> w.tc, traces |-> RegisterTrace(m, r, t.TraceID),
                  next |-> w.next, branch |-> "ambient", warned |-> FALSE]
        ELSE LET c == IF parent = "" THEN TopLevelResolve(n) ELSE ChildResolve(m, n, parent)
                 t == [base EXCEPT !.TraceID = c.TraceID, !.ParentTxnID = parent]
                 w == WithTraceContext(t, c.next)
             IN  [tc |-> w.tc, traces |-> RegisterTrace(m, r, t.TraceID),
                  next |-> w.next, branch |-> c.branch, warned |-> c.warned]

(***************************************************************************)
(* The contexts a caller may pass: none, or one carrying a TraceContext    *)
(* with a trace ID of the application or one minted so far.  Of a          *)
(* caller's TraceContext the middleware reads TraceID and TraceName only.  *)
(***************************************************************************)
CallerContext(t) ==
    [NilTraceContext EXCEPT !.has = TRUE, !.TraceID = t, !.TraceName = TraceNameOf(t)]

KnownTraceIDs == ExtTraceIDs \cup {NewUUID(i) : i \in 1..(nextUUID - 1)}

PlannerContexts ==
    {NilTraceContext} \cup {CallerContext(t) : t \in KnownTraceIDs}

\* Send reads the context of a child-linked event only.
SinkContexts(e) ==
    {NilTraceContext} \cup
    (IF e.type = "ChildRunLinked" THEN {CallerContext(t) : t \in KnownTraceIDs} ELSE {})

\* The record of an operation: what it was called with, read and returned.
\* For a Send: hasMeter tells whether the sink has a Meter, innerCalls counts the
\* calls of the inner sink, innerEvent is the event it was given and innerSaw the
\* registry as it was when the inner sink was called.
NoEvent == [type |-> "", run |-> "", phase |-> "", child |-> ""]

NoOp ==
    [op |-> "", run |-> "", event |-> "", phase |-> "", child |-> "", ctxTrace |-> "",
     branch |-> "", parentTrace |-> "", ownTrace |-> "", prevTrace |-> "",
     warned |-> FALSE, innerCalled |-> FALSE, inner |-> "", ret |-> "",
     hasMeter |-> TRUE, innerCalls |-> 0, innerEvent |-> NoEvent, innerSaw |-> {}]

\* Observer: the trace ID the registry m holds for run r, "" when it holds none.
EntryOf(m, r) == IF \E e \in m : e[1] = r THEN (CHOOSE e \in m : e[1] = r)[2] ELSE ""

(***************************************************************************)
(* The stream events a sink receives.                                      *)
(***************************************************************************)
\* A clean-up that left canceled runs registered.
TerminalPhasesNoCanceled == {"completed", "failed"}

\* The phases on which Send cleans the registry up.
TerminalPhases == {"completed", "failed", "canceled"}

\* The runtime's phases that end a run.
RunEnded(phase) == phase \in {"completed", "failed", "canceled"}

WorkflowEvents == {[type |-> "Workflow", run |-> r, phase |-> p, child |-> ""] : r \in Runs, p \in Phases}

ChildRunLinkedEvents ==
    {[type |-> "ChildRunLinked", run |-> ParentRunID(c), phase |-> "", child |-> c] :
        c \in {x \in Runs : ParentRunID(x) # ""}}

\* Of these events Send reads no field but for its debug line: their run is left open.
OtherEvents ==
    {[type |-> ty, run |-> "", phase |-> "", child |-> ""] :
        ty \in {"ToolStart", "ToolEnd", "Usage", "Unknown"}}

Events == WorkflowEvents \cup ChildRunLinkedEvents \cup OtherEvents

(***************************************************************************)
(* MeteringSink.Send: what the event does to the registry.                 *)
(***************************************************************************)
\* A sink that registered the link under the parent's run ID.
SinkRegistryKeyedByParent(m, ctx, e) ==
    IF e.type = "Workflow"
    THEN IF e.phase \in TerminalPhases THEN UnregisterTrace(m, e.run) ELSE m
    ELSE IF e.type = "ChildRunLinked"
    THEN IF ctx.has THEN RegisterTrace(m, e.run, ctx.TraceID) ELSE m
    ELSE m

SinkRegistry(m, ctx, e) ==
    IF e.type = "Workflow"
    THEN IF e.phase \in TerminalPhases THEN UnregisterTrace(m, e.run) ELSE m
    ELSE IF e.type = "ChildRunLinked"
    THEN IF ctx.has THEN RegisterTrace(m, e.child, ctx.TraceID) ELSE m
    ELSE m

(***************************************************************************)
(* The payload meteringClient.Complete builds: its correlation fields.     *)
(***************************************************************************)
NoPayload ==
    [has |-> FALSE, traceId |-> "", traceName |-> "", traceType |-> "",
     transactionId |-> "", parentTransactionId |-> ""]

\* A payload stamped with the parent's run as its transaction.
BuildPayloadParentTxn(t) ==
    IF t.has
    THEN [has |-> TRUE, traceId |-> t.TraceID, traceName |-> t.TraceName,
          traceType |-> t.TraceType, transactionId |-> t.ParentTxnID,
          parentTransactionId |-> t.ParentTxnID]
    ELSE [NoPayload EXCEPT !.has = TRUE]

\* if tc := GetTraceContext(ctx); tc != nil: the correlation fields are copied.
BuildPayload(t) ==
    IF t.has
    THEN [has |-> TRUE, traceId |-> t.TraceID, traceName |-> t.TraceName,
          traceType |-> t.TraceType, transactionId |-> t.TransactionID,
          parentTransactionId |-> t.ParentTxnID]
    ELSE [NoPayload EXCEPT !.has = TRUE]

(***************************************************************************)
(* Observer of the end-to-end scenario: R1 starts (step 1), R1's           *)
(* child-linked event for R2 is sent (2), R2 starts (3), R2 completes one  *)
(* LLM call (4), R1 resumes (5), R1's "completed" event is sent (6), R2's  *)
(* terminal event is sent (7).  Any other operation leaves the scenario.   *)
(* t1 is the trace R1's start resolved, linkCtx and childCtx the trace IDs *)
(* on the contexts of the link event and of R2's start.                    *)
(***************************************************************************)
E2EStart == [step |-> 0, t1 |-> "", linkCtx |-> "", childCtx |-> ""]

E2EOff == [step |-> -1, t1 |-> "", linkCtx |-> "", childCtx |-> ""]

E2ENext(e, l, t) ==
    IF e.step = 0 /\ l.op = "PlanStart" /\ l.run = "R1"
    THEN [e EXCEPT !.step = 1, !.t1 = t["R1"].TraceID]
    ELSE IF e.step = 1 /\ l.op = "Send" /\ l.event = "ChildRunLinked" /\ l.child = "R2"
    THEN [e EXCEPT !.step = 2, !.linkCtx = l.ctxTrace]
    ELSE IF e.step = 2 /\ l.op = "PlanStart" /\ l.run = "R2"
    THEN [e EXCEPT !.step = 3, !.childCtx = l.ctxTrace]
    ELSE IF e.step = 3 /\ l.op = "Complete" /\ l.run = "R2" /\ l.inner = "ok"
    THEN [e EXCEPT !.step = 4]
    ELSE IF e.step = 4 /\ l.op = "PlanResume" /\ l.run = "R1"
    THEN [e EXCEPT !.step = 5]
    ELSE IF e.step = 5 /\ l.op = "Send" /\ l.event = "Workflow" /\ l.run = "R1"
                      /\ l.phase = "completed"
    THEN [e EXCEPT !.step = 6]
    ELSE IF e.step = 6 /\ l.op = "Send" /\ l.event = "Workflow" /\ l.run = "R2"
                      /\ RunEnded(l.phase)
    THEN [e EXCEPT !.step = 7]
    ELSE E2EOff

(***************************************************************************)
(* Goroutines calling the registry concurrently.                           *)
(***************************************************************************)
\* The goroutines make at most MaxOps registry calls in one behaviour.
MaxOps == 3

Threads == {1, 2}

\* The run IDs and trace IDs the concurrent callers use.
RegKeys == {"R1", "R2"}

RegTraceIDs == {"t1", "t2"}

\* The calls a goroutine can make.
RegCalls ==
    {[op |-> "RegisterTrace", runID |-> k, traceID |-> t] : k \in RegKeys, t \in RegTraceIDs}
    \cup {[op |-> o, runID |-> k, traceID |-> ""] : o \in {"LookupTrace", "UnregisterTrace"}, k \in RegKeys}

\* A goroutine that has made no call: pc is "idle", "called" (inside the method,
\* before its sync.Map operation), "effected" (after it, before the return).
NoCall == [pc |-> "idle", op |-> "", runID |-> "", traceID |-> "", ret |-> "", ok |-> FALSE]

NoMapOp == [op |-> "", thread |-> 0, runID |-> "", traceID |-> "", before |-> {},
            ret |-> "", ok |-> FALSE, afterUnregister |-> FALSE]

(***************************************************************************)
(* The sequential registry the concurrent one is compared with: a partial  *)
(* map runID -> traceID ("" where undefined), and the explanations of a    *)
(* concurrent history by it.  An explanation is the map reached by some    *)
(* sequential order of the calls that respects their real-time order, with *)
(* for every goroutine whether its pending call has taken effect in that   *)
(* order and with which result.                                            *)
(***************************************************************************)
AbsApply(m, call) ==
    CASE call.op = "RegisterTrace" ->
            [m |-> [m EXCEPT ![call.runID] = call.traceID], ret |-> "", ok |-> FALSE]
      [] call.op = "UnregisterTrace" ->
            [m |-> [m EXCEPT ![call.runID] = ""], ret |-> "", ok |-> FALSE]
      [] OTHER ->
            [m |-> m, ret |-> m[call.runID], ok |-> m[call.runID] # ""]

LinIdle == [s |-> "idle", ret |-> "", ok |-> FALSE]

LinStart == {[m |-> [k \in RegKeys |-> ""], st |-> [t \in Threads |-> LinIdle]]}

\* Goroutine t has entered a call.
LinInvoke(C, t) == {[c EXCEPT !.st[t] = [s |-> "pend", ret |-> "", ok |-> FALSE]] : c \in C}

\* One more pending call takes effect.
LinStep(C, calls) ==
    C \cup {LET c == x[1]
                a == AbsApply(c.m, calls[x[2]])
            IN  [m |-> a.m, st |-> [c.st EXCEPT ![x[2]] = [s |-> "done", ret |-> a.ret, ok |-> a.ok]]]
            : x \in {y \in C \X Threads : y[1].st[y[2]].s = "pend"}}

RECURSIVE LinClose(_, _, _)
LinClose(C, calls, n) == IF n = 0 THEN C ELSE LinClose(LinStep(C, calls), calls, n - 1)

\* Goroutine t has returned (ret, ok).
LinReturn(C, t, ret, ok) ==
    {[c EXCEPT !.st[t] = LinIdle]
     : c \in {d \in C : d.st[t].s = "done" /\ d.st[t].ret = ret /\ d.st[t].ok = ok}}

(***************************************************************************)
(* Asynchronous delivery: Meter.SendAsync, Meter.sendWithRetry, Meter.send *)
(* and Meter.Flush.  Time is counted in seconds on the clock of each       *)
(* delivery task, which starts when its context is created.                *)
(***************************************************************************)
\* The payloads submitted in one behaviour.
Tasks == {"p1", "p2"}

\* const maxRetries = 3
maxRetries == 3

\* context.WithTimeout(context.Background(), 30*time.Second)
Timeout == 30

\* backoff := time.Second
InitialBackoff == 1

\* A backoff that was not doubled would wait 1, 1, 1.
NextBackoffConstant(b) == b

\* backoff *= 2
NextBackoff(b) == b * 2

\* How long the collector takes to answer one request, and what it answers:
\* a 2xx status, another status, or no answer (transport error).
AttemptDurations == {0, 23}

Responses == {"2xx", "500", "transport"}

\* The error Meter.send returns for a response: nil, a metering error
\* (unexpected status code) or a network error (request failed).
SendError(resp) ==
    CASE resp = "2xx" -> "nil"
      [] resp = "500" -> "status"
      [] OTHER -> "request"

\* The tenant fields of the Config of the Meter.
Cfg == [Environment |-> "cfg-env", OrganizationName |-> "cfg-org",
        SubscriptionID |-> "cfg-sub", ProductName |-> "cfg-prod", Subscriber |-> "cfg-subscriber"]

\* The tenant fields of a payload handed to SendAsync: all unset, or all set by the caller.
\* The other fields are the token counts, the stop reason, the streaming flag and
\* the trace fields (built: the payload was built by the model client), and the
\* prompt fields: a text is the sequence of its pieces, the empty text is <<>>.
UnsetPayload ==
    [Environment |-> "", OrganizationName |-> "", SubscriptionID |-> "", ProductName |-> "",
     Subscriber |-> "", MiddlewareSource |-> "", Model |-> "",
     InputTokenCount |-> 0, OutputTokenCount |-> 0, TotalTokenCount |-> 0,
     StopReason |-> "", IsStreamed |-> FALSE, built |-> FALSE, trace |-> NoPayload,
     SystemPrompt |-> <<>>, InputMessages |-> <<>>, OutputResponse |-> <<>>,
     SquadID |-> <<>>, SquadName |-> <<>>,
     CacheReadTokenCount |-> 0, CacheCreationTokenCount |-> 0]

CallerPayload ==
    [UnsetPayload EXCEPT !.Environment = "call-env", !.OrganizationName = "call-org",
                         !.SubscriptionID = "call-sub", !.ProductName = "call-prod",
                         !.Subscriber = "call-subscriber"]

SubmittedPayloads == {UnsetPayload, CallerPayload}

\* The MeteringContext of the context SendAsync is called with: none, or the one
\* the application attached to the request by ContextWithMetering.
NoMeteringContext ==
    [has |-> FALSE, OrganizationName |-> "", SubscriptionID |-> "", ProductName |-> "",
     Subscriber |-> ""]

RequestMeteringContext ==
    [has |-> TRUE, OrganizationName |-> "req-org", SubscriptionID |-> "req-sub",
     ProductName |-> "req-prod", Subscriber |-> "req-subscriber"]

MeteringContexts == {NoMeteringContext, RequestMeteringContext}

\* The tenant fields the claim of precedence is about.
TenantFields == {"OrganizationName", "SubscriptionID", "ProductName", "Subscriber"}

\* SendAsync stamps the middleware source and fills the unset tenant fields from the Config.
Stamp(pl) ==
    [pl EXCEPT
        !.MiddlewareSource = "goa-ai-revenium/0.1.0",
        !.Environment = IF pl.Environment = "" THEN Cfg.Environment ELSE pl.Environment,
        !.OrganizationName = IF pl.OrganizationName = "" THEN Cfg.OrganizationName ELSE pl.OrganizationName,
        !.SubscriptionID = IF pl.SubscriptionID = "" THEN Cfg.SubscriptionID ELSE pl.SubscriptionID,
        !.ProductName = IF pl.ProductName = "" THEN Cfg.ProductName ELSE pl.ProductName,
        !.Subscriber = IF pl.Subscriber = "" /\ Cfg.Subscriber # "" THEN Cfg.Subscriber ELSE pl.Subscriber]

\* The context of a delivery task is context.Background() with the timeout: it is
\* done when the timeout has elapsed, whatever the context of the caller (done or
\* not: cd) is.  A context derived from the caller's would end with it.
CtxDoneWithCaller(elapsed, cd) == elapsed >= Timeout \/ cd

CtxDone(elapsed, cd) == elapsed >= Timeout

\* A loop that went on after a success would send the payload again.
RetryAlways(err) == TRUE

\* if err == nil { return nil }: only a failed attempt is retried.
Retryable(err) == err # "nil"

\* A wait that did not watch the context would always run to its end.
SelectTimerOnly(elapsed, backoff, cd) == {"timer"}

\* The cases of the select of the retry wait that can be taken, the wait starting
\* at elapsed: ctx.Done() when the context is done by the end of the wait,
\* time.After(backoff) when the context is not done before it; both when the
\* deadline and the end of the wait coincide.
SelectReady(elapsed, backoff, cd) ==
    (IF CtxDone(elapsed, cd) \/ elapsed + backoff >= Timeout THEN {"done"} ELSE {})
    \cup
    (IF ~CtxDone(elapsed, cd) /\ elapsed + backoff <= Timeout THEN {"timer"} ELSE {})

\* A SendAsync that started the goroutine without counting it.
AddNothing(counter, delta) == counter

\* m.wg.Add(delta)
Add(counter, delta) == counter + delta

\* A goroutine that forgot wg.Done() would leave the counter up.
DoneForgotten(counter) == counter

\* m.wg.Done()
Done(counter) == counter - 1

\* A wait that did not wait.
WaitReturnsAtOnce(counter) == TRUE

\* m.wg.Wait() returns when the counter is zero.
WaitReturns(counter) == counter = 0

\* A payload that has not been submitted.  pc is "none", "spawned" (SendAsync has
\* returned), "attempting" (about to call Meter.send), "waiting" (in the select of
\* the retry wait), "returned" (sendWithRetry has returned err) or "done".
\* succeededAt is the number of the attempt that succeeded (0: none), late the
\* number of attempts started when the timeout had expired.
NoTask == [pc |-> "none", payload |-> UnsetPayload, given |-> UnsetPayload,
           reqCtx |-> NoMeteringContext, attempt |-> 0, backoff |-> 0, elapsed |-> 0,
           attempts |-> 0, waits |-> <<>>, err |-> "", warned |-> 0, errorsLogged |-> 0,
           succeededAt |-> 0, late |-> 0]

\* No Flush in progress.  before is the set of payloads submitted before the
\* latest call of Flush, pending the value of the counter when it was called,
\* counter the value of the counter when it returned.
NoFlush == [pc |-> "idle", before |-> {}, pending |-> 0, counter |-> 0]

(***************************************************************************)
(* The model client: meteringClient.Complete and Stream, and the           *)
(* meteringStreamer with its Recv and Close.                               *)
(***************************************************************************)
\* Recv is called at most MaxRecv times in one behaviour.
MaxRecv == 3

\* Allowed stopReason values per the Revenium API.
StopReasons ==
    {"END", "END_SEQUENCE", "TIMEOUT", "TOKEN_LIMIT", "COST_LIMIT", "COMPLETION_LIMIT",
     "ERROR", "CANCELLED"}

\* The stop reasons of providers: those MapStopReason names, one of another
\* case and one it does not know.
ProviderReasons ==
    {"stop", "end_turn", "complete", "tool_calls", "tool_use", "length", "max_tokens",
     "content_filter", "", "LENGTH", "refusal"}

\* A normalization that let the reason of the provider through.
MapStopReasonUnchanged(providerReason) == providerReason

\* MapStopReason: the stop reason of the provider as a value of the Revenium API.
MapStopReason(providerReason) ==
    CASE providerReason \in {"stop", "end_turn", "complete"} -> "END"
      [] providerReason \in {"tool_calls", "tool_use"} -> "END"
      [] providerReason \in {"length", "max_tokens"} -> "TOKEN_LIMIT"
      [] providerReason = "content_filter" -> "END"
      [] providerReason = "" -> "END"
      [] OTHER -> "END"

\* model.TokenUsage with nothing counted.
NoUsage == [InputTokens |-> 0, OutputTokens |-> 0, TotalTokens |-> 0,
            CacheReadTokens |-> 0, CacheWriteTokens |-> 0]

\* The usage of a response: 10 input and 5 output tokens, 7 tokens read from the
\* cache and 2 written to it, and a total in which the provider counts them all.
CachedUsage ==
    [InputTokens |-> 10, OutputTokens |-> 5, TotalTokens |-> 24,
     CacheReadTokens |-> 7, CacheWriteTokens |-> 2]

\* A nil chunk.UsageDelta.
NilDelta == [nil |-> TRUE, InputTokens |-> 0, OutputTokens |-> 0, TotalTokens |-> 0]

UsageDelta(i, o) == [nil |-> FALSE, InputTokens |-> i, OutputTokens |-> o, TotalTokens |-> i + o]

\* model.Chunk: the usage delta, the stop reason and the text of the message
\* (<<>>: no message); ZeroChunk is its zero value.
MessageChunk(delta, stopReason, text) ==
    [UsageDelta |-> delta, StopReason |-> stopReason, Message |-> text]

Chunk(delta, stopReason) == MessageChunk(delta, stopReason, <<>>)

ZeroChunk == Chunk(NilDelta, "")

\* What the inner streamer has to give, chunk by chunk: nothing; chunks that
\* count no token; three chunks with tokens, the last one with the stop reason.
ChunkStreams ==
    {<<>>,
     <<Chunk(UsageDelta(0, 0), ""), Chunk(NilDelta, "stop")>>,
     <<Chunk(UsageDelta(10, 0), ""), Chunk(UsageDelta(0, 5), ""),
       Chunk(UsageDelta(0, 3), "max_tokens")>>}

\* The usage of the response of inner.Complete.
ResponseUsages == {CachedUsage, NoUsage}

\* The contexts a model client is called with: one that carries no TraceContext,
\* and the one MeteringPlanner hands to the inner planner of the child run R2
\* when the registry holds its parent's trace.
ClientContexts ==
    {NilTraceContext,
     ensureTraceContext({<<"R1", "uuid-1">>}, 2, "R2", NilTraceContext).tc}

\* The agent ID of the model client and the squad override of the Config (none),
\* as sequences of characters.
AgentID == <<"d", "e", "m", "o", ".", "a">>

CfgSquad == <<>>

\* strings.Index(s, c): the position of the first c in s, counted from 0; -1
\* when there is none.
RECURSIVE Index(_, _)
Index(s, c) ==
    IF s = <<>> THEN -1
    ELSE IF Head(s) = c THEN 0
    ELSE LET i == Index(Tail(s), c) IN IF i = -1 THEN -1 ELSE i + 1

\* DetectSquad: the prefix of the agent ID before its first ".", the agent ID
\* itself when there is no "." after its first character.
DetectSquad(agentID) ==
    LET i == Index(agentID, ".")
    IN  IF i > 0 THEN SubSeq(agentID, 1, i) ELSE agentID

\* ResolveSquad: the override of the Config, else the squad detected.
ResolveSquad(squad, agentID) == IF squad # <<>> THEN squad ELSE DetectSquad(agentID)

\* model.Request: the text of its system message and of its user message (<<>>:
\* no such message, or one without text).  NoRequest has neither.
Request(system, user) == [System |-> system, User |-> user]

NoRequest == Request(<<>>, <<>>)

\* The requests and answers of two calls that differ in their texts only.
Requests == {Request(<<"be brief">>, u) : u \in {<<"secret A">>, <<"secret B">>}}

ResponseTexts == {<<"answer A">>, <<"answer B">>}

\* inputMessage and json.Marshal of the input messages: the array of the
\* messages as role and content.
InputMessagesJSON(req) == <<"[{\"role\":\"user\",\"content\":">> \o req.User \o <<"}]">>

\* A client that wrote the prompt fields whatever the flag.
PromptFieldsAlways(capturePrompts, pl, req, content) ==
    [pl EXCEPT !.SystemPrompt = req.System, !.InputMessages = InputMessagesJSON(req),
               !.OutputResponse = content]

\* if c.capturePrompts { populatePromptFields(payload, req, resp.Content) }:
\* each field is set when there is a text for it.
PromptFields(capturePrompts, pl, req, content) ==
    IF ~capturePrompts THEN pl
    ELSE [pl EXCEPT
            !.SystemPrompt = IF req.System # <<>> THEN req.System ELSE @,
            !.InputMessages = IF req.User # <<>> THEN InputMessagesJSON(req) ELSE @,
            !.OutputResponse = IF content # <<>> THEN content ELSE @]

\* A payload whose total is the total the provider reports.
CompletePayloadProviderTotal(usage, stopReason, t) ==
    [UnsetPayload EXCEPT !.InputTokenCount = usage.InputTokens,
                         !.OutputTokenCount = usage.OutputTokens,
                         !.TotalTokenCount = usage.TotalTokens,
                         !.CacheReadTokenCount = usage.CacheReadTokens,
                         !.CacheCreationTokenCount = usage.CacheWriteTokens,
                         !.StopReason = MapStopReason(stopReason),
                         !.IsStreamed = FALSE,
                         !.built = TRUE,
                         !.trace = BuildPayload(t)]

\* The payload meteringClient.Complete builds from the usage of the response and
\* the TraceContext t of its context.
CompletePayload(usage, stopReason, t) ==
    [UnsetPayload EXCEPT !.InputTokenCount = usage.InputTokens,
                         !.OutputTokenCount = usage.OutputTokens,
                         !.TotalTokenCount = usage.InputTokens + usage.OutputTokens,
                         !.CacheReadTokenCount = usage.CacheReadTokens,
                         !.CacheCreationTokenCount = usage.CacheWriteTokens,
                         !.StopReason = MapStopReason(stopReason),
                         !.IsStreamed = FALSE,
                         !.built = TRUE,
                         !.trace = BuildPayload(t)]

\* A Close that submitted whatever the accumulator held.
SubmitsOnCloseAlways(usage) == TRUE

\* if s.usage.InputTokens > 0 || s.usage.OutputTokens > 0
SubmitsOnClose(usage) == usage.InputTokens > 0 \/ usage.OutputTokens > 0

\* A proxy that kept the latest delta only.
AccumulateLatest(usage, delta) ==
    IF delta.nil THEN usage
    ELSE [usage EXCEPT !.InputTokens = delta.InputTokens,
                       !.OutputTokens = delta.OutputTokens,
                       !.TotalTokens = delta.TotalTokens]

\* Recv adds a usage delta to the accumulator.
Accumulate(usage, delta) ==
    IF delta.nil THEN usage
    ELSE [usage EXCEPT !.InputTokens = @ + delta.InputTokens,
                       !.OutputTokens = @ + delta.OutputTokens,
                       !.TotalTokens = @ + delta.TotalTokens]

\* The payload meteringStreamer.Close builds from the accumulator of stream s,
\* before the prompt fields.
ClosePayload(s) ==
    [UnsetPayload EXCEPT !.InputTokenCount = s.usage.InputTokens,
                         !.OutputTokenCount = s.usage.OutputTokens,
                         !.TotalTokenCount = s.usage.InputTokens + s.usage.OutputTokens,
                         !.StopReason = MapStopReason(s.stopReason),
                         !.IsStreamed = TRUE,
                         !.built = TRUE,
                         !.trace = BuildPayload(s.ctx)]

\* No stream has been opened.  pc is "none", "open" or "closed"; ctx is the
\* TraceContext of the context Stream was called with; rest are the chunks the
\* inner streamer has yet to give; deltas are the usage deltas received so far,
\* in order, and reasons the stop reasons of the chunks received; recvs counts the calls of Recv, submitted the payloads Close has
\* submitted.
NoStream ==
    [pc |-> "none", ctx |-> NilTraceContext, usage |-> NoUsage, stopReason |-> "",
     capturePrompts |-> FALSE, req |-> NoRequest, responseText |-> <<>>,
     rest |-> <<>>, deltas |-> <<>>, reasons |-> <<>>, recvs |-> 0, submitted |-> 0]

\* The payload Close submits: the prompt fields of the request, and as output
\* the text accumulated by Recv.
ClosePayloadWithPrompts(s) ==
    LET pl == PromptFields(s.capturePrompts, ClosePayload(s), s.req, <<>>)
    IN  IF s.capturePrompts THEN [pl EXCEPT !.OutputResponse = s.responseText] ELSE pl

\* The record of a call of the model client: what the inner operation returned,
\* what the call returned, the payload it submitted and the counter before and after.
\* capture, req, content, usage, stopReason and ctx are what a Complete that
\* submitted was called with and answered.
NoCallOp ==
    [op |-> "", inner |-> "", ret |-> "", task |-> "", wgBefore |-> 0, wgAfter |-> 0,
     capture |-> FALSE, req |-> NoRequest, content |-> <<>>,
     usage |-> NoUsage, stopReason |-> "", ctx |-> NilTraceContext]

(***************************************************************************)
(* The state after NewMeter: an empty registry, no run started, no         *)
(* goroutine in the registry, nothing submitted for delivery.              *)
(***************************************************************************)
\* The model IDs a planner asks ModelClient for, and those the inner planner
\* context has a client for.
ModelIDs == {"openai", "anthropic", "missing"}

InnerModelIDs == {"openai", "anthropic"}

\* MeteringPlanner.ModelName: not set, or the name to report.
ModelNames == {"", "gpt-4o"}

\* model.Request.Model: the request names no model, or one.
RequestModels == {"", "gpt-4o-mini"}

\* The number of ModelClient calls of a plan call.
MaxClients == 3

\* The inner PlannerContext.ModelClient(id): its client (named by the id it is
\* registered under) and whether it has one.
InnerModelClient(id) ==
    IF id \in InnerModelIDs THEN [client |-> id, ok |-> TRUE] ELSE [client |-> "", ok |-> FALSE]

\* nil, false
NilClient == [nil |-> TRUE, inner |-> "", modelID |-> ""]

\* A wrapper that kept the first client it built and returned it ever after.
ModelClientCached(modelName, clients, id) ==
    LET c == InnerModelClient(id)
    IN  IF ~c.ok THEN [client |-> NilClient, ok |-> FALSE]
        ELSE IF clients # <<>> THEN [client |-> clients[1], ok |-> TRUE]
        ELSE [client |-> [nil |-> FALSE, inner |-> c.client,
                          modelID |-> IF modelName = "" THEN id ELSE modelName],
              ok |-> TRUE]

\* meteringPlannerContext.ModelClient(id) of a wrapper configured with modelName
\* that has returned the clients before: (nil, false) if the inner context has no
\* client for id, else a new meteringClient around the inner client, whose model ID
\* is the configured model name, or id if none is configured.
ModelClient(modelName, clients, id) ==
    LET c == InnerModelClient(id)
    IN  IF ~c.ok THEN [client |-> NilClient, ok |-> FALSE]
        ELSE [client |-> [nil |-> FALSE, inner |-> c.client,
                          modelID |-> IF modelName = "" THEN id ELSE modelName],
              ok |-> TRUE]

\* meteringClient.resolveModel: the model of the request, else the client's model ID.
resolveModel(modelID, reqModel) == IF reqModel # "" THEN reqModel ELSE modelID

\* No plan call has wrapped the planner context.  Otherwise: the configured model
\* name, the number of ModelClient calls and the clients returned, in order.
NoWrapper == [pc |-> "none", modelName |-> "", calls |-> 0, clients |-> <<>>]

\* The record of a ModelClient call (id, what the inner context answered, what
\* was returned) or of a Complete of the k-th client returned (reqModel, the
\* client and the model of the payload).
NoWrapOp ==
    [op |-> "", id |-> "", innerOk |-> FALSE, ok |-> FALSE, client |-> NilClient,
     k |-> 0, before |-> 0, reqModel |-> "", task |-> "", reported |-> ""]

\* No resolution under way.  Otherwise: the plan call and the TraceContext its
\* resolution has built, before RegisterTrace and WithTraceContext.
NoPlanning == [pc |-> "none", op |-> "", ctxTrace |-> "", tc |-> NilTraceContext]

Init ==
    /\ traces = {}
    /\ nextUUID = 1
    /\ tc = [r \in Runs |-> NilTraceContext]
    /\ resolved = [r \in Runs |-> ""]
    /\ planning = [r \in Runs |-> NoPlanning]
    /\ runState = [r \in Runs |-> "idle"]
    /\ payload = NoPayload
    /\ last = NoOp
    /\ e2e = E2EStart
    /\ thr = [t \in Threads |-> NoCall]
    /\ nOps = 0
    /\ rlast = NoMapOp
    /\ removed = [r \in RegKeys |-> FALSE]
    /\ lin = LinStart
    /\ tasks = [p \in Tasks |-> NoTask]
    /\ wg = 0
    /\ flush = NoFlush
    /\ callerDone = FALSE
    /\ stream = NoStream
    /\ clast = NoCallOp
    /\ wrapped = NoWrapper
    /\ wlast = NoWrapOp

\* A planner that failed the run when the parent's trace was missing.
PlanReturnFailsOnMiss(res, inner) == IF res.warned THEN "err" ELSE inner

\* What PlanStart and PlanResume return after the resolution res: the inner
\* planner's result.
PlanReturn(res, inner) == inner

\* PlanStart and PlanResume: resolve the trace, then call the inner planner
\* with the new context and return what it returns.
Plan(op, r, ctx, inner) ==
    LET res == ensureTraceContext(traces, nextUUID, r, ctx)
    IN  /\ res.next <= MaxUUID + 1
        /\ traces' = res.traces
        /\ nextUUID' = res.next
        /\ tc' = [tc EXCEPT ![r] = res.tc]
        /\ resolved' = [resolved EXCEPT ![r] = EntryOf(res.traces, r)]
        /\ payload' = NoPayload
        /\ last' = [NoOp EXCEPT !.op = op, !.run = r, !.ctxTrace = ctx.TraceID,
                                !.branch = res.branch,
                                !.parentTrace = EntryOf(traces, ParentRunID(r)),
                                !.ownTrace = EntryOf(traces, r),
                                !.prevTrace = tc[r].TraceID,
                                !.warned = res.warned, !.innerCalled = TRUE,
                                !.inner = inner, !.ret = PlanReturn(res, inner)]
        /\ e2e' = E2ENext(e2e, last', tc')
        /\ UNCHANGED <<planning, regVars, dlvVars, strVars>>

PlanStart(r, ctx, inner) ==
    /\ runState[r] = "idle"
    /\ Plan("PlanStart", r, ctx, inner)
    /\ runState' = [runState EXCEPT ![r] = "active"]

PlanResume(r, ctx, inner) ==
    /\ runState[r] = "active"
    /\ Plan("PlanResume", r, ctx, inner)
    /\ UNCHANGED runState

\* meteringClient.Complete, called by the inner planner with the context it was given.
Complete(r, inner) ==
    /\ runState[r] = "active"
    /\ payload' = IF inner = "err" THEN NoPayload ELSE BuildPayload(tc[r])
    /\ last' = [NoOp EXCEPT !.op = "Complete", !.run = r, !.ctxTrace = tc[r].TraceID,
                            !.innerCalled = TRUE, !.inner = inner, !.ret = inner]
    /\ e2e' = E2ENext(e2e, last', tc)
    /\ UNCHANGED <<traces, nextUUID, tc, runState, resolved, planning, regVars, dlvVars, strVars>>

\* A sink that forwarded the event before it updated the registry.
SinkSendForwardFirst(m, hasMeter, ctx, e) ==
    [traces |-> IF hasMeter THEN SinkRegistry(m, ctx, e) ELSE m,
     innerCalls |-> 1, innerEvent |-> e, innerSaw |-> m]

\* MeteringSink.Send on the registry m: a sink without a Meter only forwards; a
\* sink with a Meter updates the registry and then forwards the event, once.
SinkSend(m, hasMeter, ctx, e) ==
    LET after == IF hasMeter THEN SinkRegistry(m, ctx, e) ELSE m
    IN  [traces |-> after, innerCalls |-> 1, innerEvent |-> e, innerSaw |-> after]

\* MeteringSink.Send of event e with context ctx, by a sink with a Meter or
\* without.  The runtime sends a run's events until its terminal workflow event,
\* and a child-linked event while the parent runs.
SendWith(hasMeter, ctx, e, inner) ==
    LET snd == SinkSend(traces, hasMeter, ctx, e)
    IN  /\ e.type = "Workflow" => runState[e.run] # "done"
        /\ e.type = "ChildRunLinked" => runState[e.run] = "active" /\ runState[e.child] # "done"
        /\ e \in OtherEvents => \E r \in Runs : runState[r] = "active"
        /\ traces' = snd.traces
        /\ runState' = IF e.type = "Workflow" /\ RunEnded(e.phase)
                       THEN [runState EXCEPT ![e.run] = "done"] ELSE runState
        /\ payload' = NoPayload
        /\ last' = [NoOp EXCEPT !.op = "Send", !.run = e.run,
                                !.event = e.type, !.phase = e.phase,
                                !.child = e.child, !.ctxTrace = ctx.TraceID,
                                !.ownTrace = EntryOf(traces, e.child),
                                !.innerCalled = TRUE, !.inner = inner, !.ret = inner,
                                !.hasMeter = hasMeter, !.innerCalls = snd.innerCalls,
                                !.innerEvent = snd.innerEvent, !.innerSaw = snd.innerSaw]
        /\ e2e' = E2ENext(e2e, last', tc)
        /\ UNCHANGED <<nextUUID, tc, resolved, planning, regVars, dlvVars, strVars>>

\* Send by a sink that has a Meter.
Send(ctx, e, inner) == SendWith(TRUE, ctx, e, inner)

Next ==
    \/ \E r \in Runs, ctx \in PlannerContexts, inner \in InnerResults : PlanStart(r, ctx, inner)
    \/ \E r \in Runs, ctx \in PlannerContexts, inner \in InnerResults : PlanResume(r, ctx, inner)
    \/ \E r \in Runs, inner \in InnerResults : Complete(r, inner)
    \/ \E e \in Events, inner \in InnerResults : \E ctx \in SinkContexts(e) : Send(ctx, e, inner)

Spec == Init /\ [][Next]_vars

(***************************************************************************)
(* Concurrent callers of the registry.  Each method of the Meter performs  *)
(* one sync.Map operation, which takes effect atomically at some point     *)
(* between the call and the return (the contract of sync.Map).             *)
(***************************************************************************)
CallRegistry(t, call) ==
    /\ thr[t].pc = "idle"
    /\ nOps < MaxOps
    /\ thr' = [thr EXCEPT ![t] = [pc |-> "called", op |-> call.op, runID |-> call.runID,
                                  traceID |-> call.traceID, ret |-> "", ok |-> FALSE]]
    /\ nOps' = nOps + 1
    /\ lin' = LinClose(LinInvoke(lin, t), thr', Cardinality(Threads))
    /\ UNCHANGED <<traces, rlast, removed, protoVars, dlvVars, strVars>>

\* m.traces.Store(runID, traceID)
DoRegisterTrace(t) ==
    /\ thr[t].pc = "called" /\ thr[t].op = "RegisterTrace"
    /\ traces' = RegisterTrace(traces, thr[t].runID, thr[t].traceID)
    /\ thr' = [thr EXCEPT ![t].pc = "effected"]
    /\ rlast' = [NoMapOp EXCEPT !.op = "RegisterTrace", !.thread = t, !.runID = thr[t].runID,
                                !.traceID = thr[t].traceID, !.before = traces]
    /\ removed' = [removed EXCEPT ![thr[t].runID] = FALSE]
    /\ UNCHANGED <<nOps, lin, protoVars, dlvVars, strVars>>

\* v, ok := m.traces.Load(runID)
DoLookupTrace(t) ==
    LET res == LookupTrace(traces, thr[t].runID)
    IN  /\ thr[t].pc = "called" /\ thr[t].op = "LookupTrace"
        /\ thr' = [thr EXCEPT ![t].pc = "effected", ![t].ret = res.traceID, ![t].ok = res.ok]
        /\ rlast' = [NoMapOp EXCEPT !.op = "LookupTrace", !.thread = t, !.runID = thr[t].runID,
                                    !.before = traces, !.ret = res.traceID, !.ok = res.ok,
                                    !.afterUnregister = removed[thr[t].runID]]
        /\ UNCHANGED <<traces, nOps, removed, lin, protoVars, dlvVars, strVars>>

\* m.traces.Delete(runID)
DoUnregisterTrace(t) ==
    /\ thr[t].pc = "called" /\ thr[t].op = "UnregisterTrace"
    /\ traces' = UnregisterTrace(traces, thr[t].runID)
    /\ thr' = [thr EXCEPT ![t].pc = "effected"]
    /\ rlast' = [NoMapOp EXCEPT !.op = "UnregisterTrace", !.thread = t, !.runID = thr[t].runID,
                                !.before = traces]
    /\ removed' = [removed EXCEPT ![thr[t].runID] = TRUE]
    /\ UNCHANGED <<nOps, lin, protoVars, dlvVars, strVars>>

ReturnRegistry(t) ==
    /\ thr[t].pc = "effected"
    /\ thr' = [thr EXCEPT ![t].pc = "idle"]
    /\ lin' = LinReturn(LinClose(lin, thr, Cardinality(Threads)), t, thr[t].ret, thr[t].ok)
    /\ UNCHANGED <<traces, nOps, rlast, removed, protoVars, dlvVars, strVars>>

NextRegistry ==
    \/ \E t \in Threads, call \in RegCalls : CallRegistry(t, call)
    \/ \E t \in Threads : DoRegisterTrace(t)
    \/ \E t \in Threads : DoLookupTrace(t)
    \/ \E t \in Threads : DoUnregisterTrace(t)
    \/ \E t \in Threads : ReturnRegistry(t)

SpecRegistry == Init /\ [][NextRegistry]_vars

(***************************************************************************)
(* Asynchronous delivery.                                                  *)
(***************************************************************************)
\* Meter.SendAsync, called with a context that carries the MeteringContext mc:
\* stamp the payload, wg.Add(1), start the goroutine, return.  The context of
\* the caller is not used.  given and reqCtx keep what SendAsync was called with.
SubmitWith(p, mc, pl) ==
    /\ tasks[p].pc = "none"
    /\ tasks' = [tasks EXCEPT ![p] = [NoTask EXCEPT !.pc = "spawned", !.payload = Stamp(pl),
                                                    !.given = pl, !.reqCtx = mc]]
    /\ wg' = Add(wg, 1)

\* A SendAsync that delivered the payload itself before it returned.
SubmitAndWait(p, pl) ==
    /\ tasks[p].pc = "none"
    /\ tasks' = [tasks EXCEPT ![p] = [NoTask EXCEPT !.pc = "done", !.payload = Stamp(pl),
                                                    !.given = pl,
                                                    !.attempts = 1, !.err = "nil",
                                                    !.succeededAt = 1]]
    /\ wg' = wg

\* Meter.SendAsync, called with a context that carries no MeteringContext.
Submit(p, pl) == SubmitWith(p, NoMeteringContext, pl)

SendAsync(p, pl) ==
    /\ Submit(p, pl)
    /\ UNCHANGED <<flush, callerDone, traces, protoVars, regVars, strVars>>

\* The context of the caller is canceled: before, during or after SendAsync.
CancelCaller ==
    /\ ~callerDone
    /\ callerDone' = TRUE
    /\ UNCHANGED <<tasks, wg, flush, traces, protoVars, regVars, strVars>>

\* A sendWithRetry that took a payload it cannot serialize round the retry loop.
MarshalStepRetried(t, ok) ==
    IF ok THEN [t EXCEPT !.pc = "attempting", !.attempt = 0,
                         !.backoff = InitialBackoff, !.elapsed = 0]
    ELSE [t EXCEPT !.pc = "waiting", !.err = "marshal", !.attempt = 1,
                   !.backoff = InitialBackoff, !.elapsed = 0]

\* The start of sendWithRetry for task t: json.Marshal fails (ok = FALSE) and the
\* metering error is returned at once, or it gives the body and the loop begins.
MarshalStep(t, ok) ==
    IF ok THEN [t EXCEPT !.pc = "attempting", !.attempt = 0,
                         !.backoff = InitialBackoff, !.elapsed = 0]
    ELSE [t EXCEPT !.pc = "returned", !.err = "marshal", !.elapsed = 0]

\* The goroutine creates its context and enters sendWithRetry: json.Marshal,
\* which fails (ok = FALSE) or gives the body.
Marshal(p, ok) ==
    /\ tasks[p].pc = "spawned"
    /\ tasks' = [tasks EXCEPT ![p] = MarshalStep(@, ok)]
    /\ UNCHANGED <<wg, flush, callerDone, traces, protoVars, regVars, strVars>>

\* The task after m.send has returned err at time end: return nil on success;
\* else log the warning and go round the loop, leaving it after maxRetries retries.
AfterSend(t, err, end) ==
    IF ~Retryable(err)
    THEN [t EXCEPT !.pc = "returned", !.err = err, !.elapsed = end, !.attempts = @ + 1,
                   !.late = IF t.elapsed >= Timeout THEN @ + 1 ELSE @,
                   !.succeededAt = IF err = "nil" /\ @ = 0 THEN t.attempts + 1 ELSE @]
    ELSE [t EXCEPT !.pc = IF t.attempt + 1 <= maxRetries THEN "waiting" ELSE "returned",
                   !.attempt = @ + 1, !.err = err, !.elapsed = end,
                   !.attempts = @ + 1, !.warned = @ + 1,
                   !.late = IF t.elapsed >= Timeout THEN @ + 1 ELSE @,
                   !.succeededAt = IF err = "nil" /\ @ = 0 THEN t.attempts + 1 ELSE @]

\* One iteration of the loop from m.send on, for task t: the request takes d
\* seconds and is answered resp, unless the context is done first; a request that
\* would be answered at the deadline ends either way.
AttemptSteps(t, d, resp, cd) ==
    LET expired == CtxDone(t.elapsed, cd)
        errs == IF expired \/ t.elapsed + d > Timeout THEN {"request"}
                ELSE IF t.elapsed + d = Timeout THEN {SendError(resp), "request"}
                ELSE {SendError(resp)}
        end == IF expired THEN t.elapsed
               ELSE IF t.elapsed + d > Timeout THEN Timeout ELSE t.elapsed + d
    IN  {AfterSend(t, err, end) : err \in errs}

Attempt(p, d, resp) ==
    /\ tasks[p].pc = "attempting"
    /\ \E n \in AttemptSteps(tasks[p], d, resp, callerDone) :
          tasks' = [tasks EXCEPT ![p] = n]
    /\ UNCHANGED <<wg, flush, callerDone, traces, protoVars, regVars, strVars>>

\* The select of the retry wait of task t: time.After(backoff) fires and the
\* backoff is doubled, or ctx.Done() fires first and sendWithRetry returns a
\* network error.
WaitSteps(t, cd) ==
    LET ready == SelectReady(t.elapsed, t.backoff, cd)
    IN  (IF "timer" \in ready
         THEN {[t EXCEPT !.pc = "attempting", !.elapsed = @ + t.backoff,
                         !.waits = Append(@, t.backoff),
                         !.backoff = NextBackoff(t.backoff)]}
         ELSE {})
        \cup
        (IF "done" \in ready
         THEN {[t EXCEPT !.pc = "returned", !.err = "ctx_retry",
                         !.elapsed = IF CtxDone(t.elapsed, cd) THEN @ ELSE Timeout]}
         ELSE {})

Wait(p) ==
    /\ tasks[p].pc = "waiting"
    /\ \E n \in WaitSteps(tasks[p], callerDone) : tasks' = [tasks EXCEPT ![p] = n]
    /\ UNCHANGED <<wg, flush, callerDone, traces, protoVars, regVars, strVars>>

\* The end of the goroutine: log the error sendWithRetry returned, if any; wg.Done().
Finish(p) ==
    /\ tasks[p].pc = "returned"
    /\ tasks' = [tasks EXCEPT ![p] =
                    [@ EXCEPT !.pc = "done",
                              !.errorsLogged = IF tasks[p].err # "nil" THEN @ + 1 ELSE @]]
    /\ wg' = Done(wg)
    /\ UNCHANGED <<flush, callerDone, traces, protoVars, regVars, strVars>>

\* Meter.Flush: wg.Wait() returns when the counter is zero.
FlushCall ==
    /\ flush.pc # "waiting"
    /\ flush' = [pc |-> "waiting", before |-> {p \in Tasks : tasks[p].pc # "none"},
                 pending |-> wg, counter |-> 0]
    /\ UNCHANGED <<tasks, wg, callerDone, traces, protoVars, regVars, strVars>>

FlushReturn ==
    /\ flush.pc = "waiting"
    /\ WaitReturns(wg)
    /\ flush' = [flush EXCEPT !.pc = "returned", !.counter = wg]
    /\ UNCHANGED <<tasks, wg, callerDone, traces, protoVars, regVars, strVars>>

NextDelivery ==
    \/ \E p \in Tasks, pl \in SubmittedPayloads : SendAsync(p, pl)
    \/ CancelCaller
    \/ \E p \in Tasks, ok \in BOOLEAN : Marshal(p, ok)
    \/ \E p \in Tasks, d \in AttemptDurations, resp \in Responses : Attempt(p, d, resp)
    \/ \E p \in Tasks : Wait(p)
    \/ \E p \in Tasks : Finish(p)
    \/ FlushCall
    \/ FlushReturn

SpecDelivery == Init /\ [][NextDelivery]_vars

\* The steps of the delivery goroutine of payload p.
TaskStep(p) ==
    \/ \E ok \in BOOLEAN : Marshal(p, ok)
    \/ \E d \in AttemptDurations, resp \in Responses : Attempt(p, d, resp)
    \/ Wait(p)
    \/ Finish(p)

\* The goroutines are scheduled, a request ends by the deadline of its context at
\* the latest, and a Flush whose wait can return does return.
FairDelivery ==
    /\ \A p \in Tasks : WF_vars(TaskStep(p))
    /\ WF_vars(FlushReturn)

\* Delivery and Flush alone: every payload is submitted with its tenant fields
\* unset and the context of the caller stays as it is.
NextFlush ==
    \/ \E p \in Tasks : SendAsync(p, UnsetPayload)
    \/ \E p \in Tasks, ok \in BOOLEAN : Marshal(p, ok)
    \/ \E p \in Tasks, d \in AttemptDurations, resp \in Responses : Attempt(p, d, resp)
    \/ \E p \in Tasks : Wait(p)
    \/ \E p \in Tasks : Finish(p)
    \/ FlushCall
    \/ FlushReturn

SpecFlush == Init /\ [][NextFlush]_vars /\ FairDelivery

(***************************************************************************)
(* The model client.                                                       *)
(***************************************************************************)
\* A client that took every answer of the inner client for a success.
InnerFailedNever(inner) == FALSE

\* err != nil: the inner client returned an error.
InnerFailed(inner) == inner = "err"

\* meteringClient.Complete of a client with the flag capturePrompts, for the
\* request req, with a context whose TraceContext is ctx: the inner client
\* returns an error (inner = "err") or a response with the given text, usage and
\* stop reason; the payload is built and handed to SendAsync, as payload p.
ClientCompleteWith(p, capturePrompts, req, content, ctx, usage, stopReason, inner) ==
    /\ IF InnerFailed(inner)
       THEN /\ UNCHANGED <<tasks, wg>>
            /\ clast' = [NoCallOp EXCEPT !.op = "Complete", !.inner = inner, !.ret = inner,
                                         !.wgBefore = wg, !.wgAfter = wg]
       ELSE /\ Submit(p, PromptFields(capturePrompts,
                                      CompletePayload(usage, stopReason, ctx), req, content))
            /\ clast' = [NoCallOp EXCEPT !.op = "Complete", !.inner = inner, !.ret = inner,
                                         !.task = p, !.wgBefore = wg, !.wgAfter = wg',
                                         !.capture = capturePrompts, !.req = req,
                                         !.content = content, !.usage = usage,
                                         !.stopReason = stopReason, !.ctx = ctx]
    /\ UNCHANGED <<stream, wrapped, wlast, flush, callerDone, traces, protoVars, regVars>>

\* Complete of a client that does not capture prompts.
ClientComplete(p, ctx, usage, stopReason, inner) ==
    ClientCompleteWith(p, FALSE, NoRequest, <<>>, ctx, usage, stopReason, inner)

\* meteringClient.Stream of a client with the flag capturePrompts, for the
\* request req: the streamer of the inner client, which has the chunks chunks to
\* give, wrapped; or the error of the inner client.
StreamWith(capturePrompts, req, ctx, chunks, inner) ==
    /\ stream.pc = "none"
    /\ stream' = IF InnerFailed(inner) THEN stream
                 ELSE [NoStream EXCEPT !.pc = "open", !.ctx = ctx, !.rest = chunks,
                                       !.capturePrompts = capturePrompts, !.req = req]
    /\ clast' = [NoCallOp EXCEPT !.op = "Stream", !.inner = inner, !.ret = inner,
                                 !.wgBefore = wg, !.wgAfter = wg]
    /\ UNCHANGED <<wrapped, wlast, dlvVars, traces, protoVars, regVars>>

\* Stream of a client that does not capture prompts.
Stream(ctx, chunks, inner) == StreamWith(FALSE, NoRequest, ctx, chunks, inner)

\* meteringStreamer.Recv: the chunk and error of the inner streamer are returned
\* (the zero chunk once it has no more to give); the usage delta and the stop
\* reason of the chunk are kept, whatever the error.
Recv(inner) ==
    /\ stream.pc \in {"open", "closed"}
    /\ stream.recvs < MaxRecv
    /\ LET chunk == IF stream.rest = <<>> THEN ZeroChunk ELSE Head(stream.rest)
       IN  stream' = [stream EXCEPT
                        !.usage = Accumulate(@, chunk.UsageDelta),
                        !.stopReason = IF chunk.StopReason # "" THEN chunk.StopReason ELSE @,
                        !.responseText = IF stream.capturePrompts /\ chunk.Message # <<>>
                                         THEN @ \o chunk.Message ELSE @,
                        !.rest = IF @ = <<>> THEN @ ELSE Tail(@),
                        !.deltas = IF chunk.UsageDelta.nil THEN @
                                   ELSE Append(@, chunk.UsageDelta),
                        !.reasons = Append(@, chunk.StopReason),
                        !.recvs = @ + 1]
    /\ clast' = [NoCallOp EXCEPT !.op = "Recv", !.inner = inner, !.ret = inner,
                                 !.wgBefore = wg, !.wgAfter = wg]
    /\ UNCHANGED <<wrapped, wlast, dlvVars, traces, protoVars, regVars>>

\* meteringStreamer.Close: close the inner streamer; if tokens were accumulated,
\* build the payload and hand it to SendAsync, as payload p; return the error of
\* the inner Close.
Close(p, inner) ==
    /\ stream.pc \in {"open", "closed"}
    /\ IF SubmitsOnClose(stream.usage)
       THEN /\ Submit(p, ClosePayloadWithPrompts(stream))
            /\ stream' = [stream EXCEPT !.pc = "closed", !.submitted = @ + 1]
            /\ clast' = [NoCallOp EXCEPT !.op = "Close", !.inner = inner, !.ret = inner,
                                         !.task = p, !.wgBefore = wg, !.wgAfter = wg']
       ELSE /\ UNCHANGED <<tasks, wg>>
            /\ stream' = [stream EXCEPT !.pc = "closed"]
            /\ clast' = [NoCallOp EXCEPT !.op = "Close", !.inner = inner, !.ret = inner,
                                         !.wgBefore = wg, !.wgAfter = wg]
    /\ UNCHANGED <<wrapped, wlast, flush, callerDone, traces, protoVars, regVars>>

\* The payload the model client submits next: the first one not yet submitted.
NextTask == IF tasks["p1"].pc = "none" THEN "p1" ELSE "p2"

\* The model client with the delivery of what it submits: the serialization
\* fails, or the collector accepts the payload at once.
NextClient ==
    \/ \E ctx \in ClientContexts, usage \in ResponseUsages, inner \in InnerResults :
          ClientComplete(NextTask, ctx, usage, "end_turn", inner)
    \/ \E ctx \in ClientContexts, chunks \in ChunkStreams, inner \in InnerResults :
          Stream(ctx, chunks, inner)
    \/ \E inner \in InnerResults : Recv(inner)
    \/ \E inner \in InnerResults : Close(NextTask, inner)
    \/ \E p \in Tasks, ok \in BOOLEAN : Marshal(p, ok)
    \/ \E p \in Tasks : Attempt(p, 0, "2xx")
    \/ \E p \in Tasks : Finish(p)

SpecClient == Init /\ [][NextClient]_vars

(***************************************************************************)
(* Stop reasons: calls answered with every stop reason, and streams whose  *)
(* chunks carry several.                                                   *)
(***************************************************************************)
\* What the inner streamer has to give: a stop reason followed by another, by a
\* chunk without one, or by an unknown one.
ReasonStreams ==
    {<<Chunk(UsageDelta(10, 5), r1), Chunk(NilDelta, r2)>> :
        r1 \in {"", "length", "stop"}, r2 \in {"", "max_tokens", "tool_use", "refusal"}}

NextStopReason ==
    \/ \E stopReason \in ProviderReasons, inner \in InnerResults :
          ClientComplete(NextTask, NilTraceContext, CachedUsage, stopReason, inner)
    \/ \E chunks \in ReasonStreams : Stream(NilTraceContext, chunks, "ok")
    \/ Recv("ok")
    \/ Close(NextTask, "ok")
    \/ \E p \in Tasks : Marshal(p, TRUE)
    \/ \E p \in Tasks : Attempt(p, 0, "2xx")
    \/ \E p \in Tasks : Finish(p)

SpecStopReason == Init /\ [][NextStopReason]_vars

(***************************************************************************)
(* The sink: runs start and the runtime sends their events to a sink with  *)
(* a Meter or to one without.                                              *)
(***************************************************************************)
NextSink ==
    \/ \E r \in Runs : PlanStart(r, NilTraceContext, "ok")
    \/ \E hasMeter \in BOOLEAN, e \in Events, inner \in InnerResults :
          \E ctx \in SinkContexts(e) : SendWith(hasMeter, ctx, e, inner)

SpecSink == Init /\ [][NextSink]_vars

(***************************************************************************)
(* The planner and the sink side by side: a plan call runs on the          *)
(* goroutine of its activity, the sink on the goroutine that publishes the *)
(* events, and the registry is all they share.  ensureTraceContext is two  *)
(* steps here: it reads the context and the registry and builds the        *)
(* TraceContext, then it registers the run and attaches the TraceContext.  *)
(* The sink may process an event between the two.                          *)
(***************************************************************************)
\* ensureTraceContext up to its call of RegisterTrace.
PlanBegin(op, r, ctx) ==
    LET res == ensureTraceContext(traces, nextUUID, r, ctx)
    IN  /\ planning[r].pc = "none"
        /\ runState[r] = (IF op = "PlanStart" THEN "idle" ELSE "active")
        /\ res.next <= MaxUUID + 1
        /\ nextUUID' = res.next
        /\ planning' = [planning EXCEPT ![r] = [pc |-> "built", op |-> op,
                                                ctxTrace |-> ctx.TraceID, tc |-> res.tc]]
        /\ runState' = IF op = "PlanStart" THEN [runState EXCEPT ![r] = "active"]
                       ELSE runState
        /\ UNCHANGED <<traces, tc, payload, last, e2e, resolved, regVars, dlvVars, strVars>>

\* The rest of the plan call: RegisterTrace, WithTraceContext, the inner planner.
PlanEnd(r, inner) ==
    /\ planning[r].pc = "built"
    /\ traces' = RegisterTrace(traces, r, planning[r].tc.TraceID)
    /\ tc' = [tc EXCEPT ![r] = planning[r].tc]
    /\ resolved' = [resolved EXCEPT ![r] = planning[r].tc.TraceID]
    /\ planning' = [planning EXCEPT ![r] = NoPlanning]
    /\ payload' = NoPayload
    /\ last' = [NoOp EXCEPT !.op = planning[r].op, !.run = r,
                            !.ctxTrace = planning[r].ctxTrace,
                            !.ownTrace = EntryOf(traces, r),
                            !.prevTrace = tc[r].TraceID,
                            !.innerCalled = TRUE, !.inner = inner, !.ret = inner]
    /\ UNCHANGED <<nextUUID, runState, e2e, regVars, dlvVars, strVars>>

\* The runs whose plan calls and events interleave: a parent and its child.
RaceRuns == {"R1", "R2"}

NextRace ==
    \/ \E op \in {"PlanStart", "PlanResume"}, r \in RaceRuns :
          PlanBegin(op, r, NilTraceContext)
    \/ \E r \in RaceRuns : PlanEnd(r, "ok")
    \/ \E e \in {x \in WorkflowEvents \cup ChildRunLinkedEvents : x.run \in RaceRuns} :
          \E ctx \in SinkContexts(e) : Send(ctx, e, "ok")

SpecRace == Init /\ [][NextRace]_vars

(***************************************************************************)
(* The wrapped planner context: a plan call wraps the context it hands to  *)
(* the inner planner, which asks it for model clients and calls them; the  *)
(* collector accepts what is sent.                                         *)
(***************************************************************************)
\* PlanStart / PlanResume of a planner configured with modelName: input.Agent is
\* replaced by a meteringPlannerContext.
WrapContext(modelName) ==
    /\ wrapped.pc = "none"
    /\ wrapped' = [NoWrapper EXCEPT !.pc = "wrapped", !.modelName = modelName]
    /\ wlast' = [NoWrapOp EXCEPT !.op = "Wrap"]
    /\ UNCHANGED <<stream, clast, dlvVars, traces, protoVars, regVars>>

\* The inner planner calls ModelClient(id) on the context it was given.
CallModelClient(id) ==
    LET res == ModelClient(wrapped.modelName, wrapped.clients, id)
    IN  /\ wrapped.pc = "wrapped"
        /\ wrapped.calls < MaxClients
        /\ wrapped' = [wrapped EXCEPT !.calls = @ + 1,
                                      !.clients = IF res.ok THEN Append(@, res.client) ELSE @]
        /\ wlast' = [NoWrapOp EXCEPT !.op = "ModelClient", !.id = id,
                                     !.innerOk = InnerModelClient(id).ok,
                                     !.ok = res.ok, !.client = res.client,
                                     !.before = Len(wrapped.clients)]
        /\ UNCHANGED <<stream, clast, dlvVars, traces, protoVars, regVars>>

\* Complete of the k-th client the wrapper returned, for a request that names
\* the model reqModel or none: the payload reports resolveModel(req).
WrappedComplete(p, k, reqModel, inner) ==
    LET c == wrapped.clients[k]
        model == resolveModel(c.modelID, reqModel)
    IN  /\ IF InnerFailed(inner)
           THEN /\ UNCHANGED <<tasks, wg>>
                /\ clast' = [NoCallOp EXCEPT !.op = "Complete", !.inner = inner,
                                             !.ret = inner, !.wgBefore = wg, !.wgAfter = wg]
                /\ wlast' = [NoWrapOp EXCEPT !.op = "Complete", !.k = k, !.client = c,
                                             !.reqModel = reqModel]
           ELSE /\ Submit(p, [CompletePayload(CachedUsage, "end_turn", NilTraceContext)
                                 EXCEPT !.Model = model])
                /\ clast' = [NoCallOp EXCEPT !.op = "Complete", !.inner = inner,
                                             !.ret = inner, !.task = p,
                                             !.wgBefore = wg, !.wgAfter = wg',
                                             !.usage = CachedUsage, !.stopReason = "end_turn"]
                /\ wlast' = [NoWrapOp EXCEPT !.op = "Complete", !.k = k, !.client = c,
                                             !.reqModel = reqModel, !.task = p,
                                             !.reported = model]
        /\ UNCHANGED <<stream, wrapped, flush, callerDone, traces, protoVars, regVars>>

NextWrap ==
    \/ \E modelName \in ModelNames : WrapContext(modelName)
    \/ \E id \in ModelIDs : CallModelClient(id)
    \/ \E k \in 1..Len(wrapped.clients), reqModel \in RequestModels, inner \in InnerResults :
          WrappedComplete(NextTask, k, reqModel, inner)
    \/ \E p \in Tasks : Marshal(p, TRUE)
    \/ \E p \in Tasks : Attempt(p, 0, "2xx")
    \/ \E p \in Tasks : Finish(p)

SpecWrap == Init /\ [][NextWrap]_vars

(***************************************************************************)
(* The tenant fields: SendAsync is called with a payload whose tenant      *)
(* fields are unset or set, on a request context with or without a         *)
(* MeteringContext; the collector accepts what is sent.                    *)
(***************************************************************************)
SendAsyncWith(p, mc, pl) ==
    /\ SubmitWith(p, mc, pl)
    /\ UNCHANGED <<flush, callerDone, traces, protoVars, regVars, strVars>>

NextTenant ==
    \/ \E p \in Tasks, mc \in MeteringContexts, pl \in SubmittedPayloads : SendAsyncWith(p, mc, pl)
    \/ \E p \in Tasks : Marshal(p, TRUE)
    \/ \E p \in Tasks : Attempt(p, 0, "2xx")
    \/ \E p \in Tasks : Finish(p)

SpecTenant == Init /\ [][NextTenant]_vars

(***************************************************************************)
(* The control flow of one agent run: the child run R2, started with no    *)
(* TraceContext while its parent's trace is not registered.  The inner     *)
(* planner calls the model client with the context PlanStart or PlanResume *)
(* handed to it; the runtime sends the run's workflow events to the sink;  *)
(* the serialization fails, or the collector does not answer in time.      *)
(***************************************************************************)
AgentRun == "R2"

AgentEvents == {e \in WorkflowEvents : e.run = AgentRun /\ e.phase \in {"planning", "failed"}}

\* The usage and the chunks the provider answers the agent's calls with.
AgentUsage == CachedUsage

AgentChunks == <<Chunk(UsageDelta(10, 5), "end_turn")>>

NextAgent ==
    \/ \E inner \in InnerResults : PlanStart(AgentRun, NilTraceContext, inner)
    \/ \E inner \in InnerResults : PlanResume(AgentRun, NilTraceContext, inner)
    \/ \E e \in AgentEvents, inner \in InnerResults : Send(NilTraceContext, e, inner)
    \/ \E inner \in InnerResults :
          /\ runState[AgentRun] = "active"
          /\ ClientComplete(NextTask, tc[AgentRun], AgentUsage, "end_turn", inner)
    \/ \E inner \in InnerResults :
          /\ runState[AgentRun] = "active"
          /\ Stream(tc[AgentRun], AgentChunks, inner)
    \/ \E inner \in InnerResults : Recv(inner)
    \/ \E inner \in InnerResults : Close(NextTask, inner)
    \/ \E p \in Tasks, ok \in BOOLEAN : Marshal(p, ok)
    \/ \E p \in Tasks : Attempt(p, Timeout + 1, "500")
    \/ \E p \in Tasks : Wait(p)
    \/ \E p \in Tasks : Finish(p)

SpecAgent == Init /\ [][NextAgent]_vars

(***************************************************************************)
(* Calls of the model client that the provider fails: the agent run is     *)
(* registered, the inner planner calls Complete and Stream, the provider   *)
(* answers or returns an error, the collector accepts what is sent.        *)
(***************************************************************************)
NextProviderError ==
    \/ PlanStart(AgentRun, NilTraceContext, "ok")
    \/ \E inner \in InnerResults :
          /\ runState[AgentRun] = "active"
          /\ ClientComplete(NextTask, tc[AgentRun], AgentUsage, "end_turn", inner)
    \/ \E inner \in InnerResults :
          /\ runState[AgentRun] = "active"
          /\ Stream(tc[AgentRun], AgentChunks, inner)
    \/ Recv("ok")
    \/ \E inner \in InnerResults : Close(NextTask, inner)
    \/ \E p \in Tasks : Marshal(p, TRUE)
    \/ \E p \in Tasks : Attempt(p, 0, "2xx")
    \/ \E p \in Tasks : Finish(p)

SpecProviderError == Init /\ [][NextProviderError]_vars

(***************************************************************************)
(* Prompt capture: clients with and without the flag, called with requests *)
(* and answered with texts that differ; the collector accepts what is      *)
(* sent.                                                                   *)
(***************************************************************************)
\* What the inner streamer has to give: the answer in two messages.
TextStreams ==
    {<<MessageChunk(UsageDelta(10, 5), "", <<"answer ">>), MessageChunk(NilDelta, "stop", t)>> :
        t \in {<<"A">>, <<"B">>}}

NextCapture ==
    \/ \E capturePrompts \in BOOLEAN, req \in Requests, content \in ResponseTexts,
          inner \in InnerResults :
          ClientCompleteWith(NextTask, capturePrompts, req, content, NilTraceContext,
                             AgentUsage, "end_turn", inner)
    \/ \E capturePrompts \in BOOLEAN, req \in Requests, chunks \in TextStreams,
          inner \in InnerResults :
          StreamWith(capturePrompts, req, NilTraceContext, chunks, inner)
    \/ \E inner \in InnerResults : Recv(inner)
    \/ \E inner \in InnerResults : Close(NextTask, inner)
    \/ \E p \in Tasks : Marshal(p, TRUE)
    \/ \E p \in Tasks : Attempt(p, 0, "2xx")
    \/ \E p \in Tasks : Finish(p)

SpecCapture == Init /\ [][NextCapture]_vars

(***************************************************************************)
(* Properties of the trace resolution protocol.                            *)
(***************************************************************************)
\* The last operation was a trace resolution (PlanStart or PlanResume).
Planned == last.op \in {"PlanStart", "PlanResume"}

\* The last operation resolved a child run whose parent was registered.
ChildOfRegisteredParent ==
    Planned /\ ParentRunID(last.run) # "" /\ last.parentTrace # ""

\* C1 as stated: a child run whose parent was registered before its resolution ran
\* resolves the parent's registered TraceID, and its ParentTransactionID is the
\* parent's run ID.
C1_ChildResolvesParentTrace ==
    ChildOfRegisteredParent =>
        /\ tc[last.run].TraceID = last.parentTrace
        /\ tc[last.run].ParentTxnID = ParentRunID(last.run)

\* C1 amended: such a child run resolves the parent's registered TraceID when its
\* caller's context carries no TraceContext, and the TraceID of that TraceContext
\* when it carries one; its ParentTransactionID is the parent's run ID in both cases.
C1_ChildResolvesParentTraceUnlessAmbient ==
    ChildOfRegisteredParent =>
        /\ tc[last.run].TraceID =
              IF last.ctxTrace # "" THEN last.ctxTrace ELSE last.parentTrace
        /\ tc[last.run].ParentTxnID = ParentRunID(last.run)

C1_Witness ==
    /\ ChildOfRegisteredParent
    /\ last.ctxTrace = ""
    /\ tc[last.run].TraceID = last.parentTrace

\* C2: every PlanResume of a run resolves the TraceID its previous resolution
\* resolved (so, by induction, the one its PlanStart resolved), and a payload of the
\* run carries that TraceID, the run as transactionId and, for a top-level run, an
\* empty parentTransactionId.
C2_ResumeKeepsTrace ==
    /\ last.op = "PlanResume" => tc[last.run].TraceID = last.prevTrace
    /\ (last.op = "Complete" /\ payload.has) =>
          /\ payload.traceId = tc[last.run].TraceID
          /\ payload.transactionId = last.run
          /\ ParentRunID(last.run) = "" => payload.parentTransactionId = ""

\* C3 as stated: the TraceID of a top-level run is freshly generated and differs from
\* the TraceID resolved for every other run.
C3_TopLevelTraceDistinct ==
    \A r \in Runs : (ParentRunID(r) = "" /\ tc[r].has) =>
        /\ tc[r].TraceID \notin ExtTraceIDs
        /\ \A r2 \in Runs \ {r} : tc[r2].has => tc[r2].TraceID # tc[r].TraceID

\* C3 amended: the TraceID resolved for a top-level run whose caller's context
\* carries no TraceContext is freshly generated: when it is resolved it differs from
\* the TraceID of every other run's TraceContext and registry entry, from every
\* application trace ID and from the run's own earlier TraceID.
C3_TopLevelTraceFresh ==
    (Planned /\ ParentRunID(last.run) = "" /\ last.ctxTrace = "") =>
        LET t == tc[last.run].TraceID
        IN  /\ t \notin ExtTraceIDs \cup {"", last.prevTrace}
            /\ \A r2 \in Runs \ {last.run} : tc[r2].TraceID # t
            /\ \A e \in traces : e[1] # last.run => e[2] # t

C3_Witness ==
    /\ Planned /\ ParentRunID(last.run) = "" /\ last.ctxTrace = ""
    /\ \E r2 \in Runs \ {last.run} : ParentRunID(r2) = "" /\ tc[r2].has

\* C4: a child run resolved with no ambient TraceContext and no registry entry of its
\* parent gets a fresh TraceID, a warning is logged, ParentTransactionID is its
\* ParentRunID, (RunID -> fresh TraceID) is registered, and the inner planner is
\* called and its result returned.
ChildOfMissingParent ==
    Planned /\ ParentRunID(last.run) # "" /\ last.ctxTrace = "" /\ last.parentTrace = ""

C4_MissFallback ==
    ChildOfMissingParent =>
        LET t == tc[last.run].TraceID
        IN  /\ tc[last.run].has
            /\ t \notin ExtTraceIDs \cup {"", last.prevTrace}
            /\ \A r2 \in Runs \ {last.run} : tc[r2].TraceID # t
            /\ \A e \in traces : e[1] # last.run => e[2] # t
            /\ last.warned
            /\ tc[last.run].ParentTxnID = ParentRunID(last.run)
            /\ {e \in traces : e[1] = last.run} = {<<last.run, t>>}
            /\ last.innerCalled
            /\ last.ret = last.inner

C4_Witness == ChildOfMissingParent /\ last.inner = "ok" /\ last.op = "PlanStart"

\* C5: after Send of a child-linked event whose context carries the emitting run's
\* TraceContext the registry maps the child run to that TraceID, and a child run so
\* pre-registered before its own PlanStart resolves that pre-registered TraceID.
C5_PreRegisteredChildResolves ==
    /\ (last.op = "Send" /\ last.event = "ChildRunLinked" /\ last.ctxTrace # "") =>
          EntryOf(traces, last.child) = last.ctxTrace
    /\ (/\ last.op = "PlanStart" /\ ParentRunID(last.run) # ""
        /\ last.ctxTrace = ""
        /\ last.ownTrace # ""
        /\ last.ownTrace = tc[ParentRunID(last.run)].TraceID) =>
          tc[last.run].TraceID = last.ownTrace

\* C6 as stated: along the end-to-end scenario the registry is {R1:T1} after R1
\* starts, {R1:T1, R2:T1} after the link event, R2's payload has traceId T1,
\* transactionId R2 and parentTransactionId R1, the registry is {R2:T1} after R1's
\* "completed" event and empty after R2's terminal event.
E2EHolds ==
    /\ e2e.step = 1 => traces = {<<"R1", e2e.t1>>}
    /\ e2e.step = 2 => traces = {<<"R1", e2e.t1>>, <<"R2", e2e.t1>>}
    /\ e2e.step = 4 => /\ payload.has
                       /\ payload.traceId = e2e.t1
                       /\ payload.transactionId = "R2"
                       /\ payload.parentTransactionId = "R1"
    /\ e2e.step = 6 => traces = {<<"R2", e2e.t1>>}
    /\ e2e.step = 7 => traces = {}

E2EContexts ==
    /\ e2e.step >= 2 => e2e.linkCtx = e2e.t1
    /\ e2e.step >= 3 => e2e.childCtx \in {"", e2e.t1}

AllTopLevelEnded ==
    \A r \in Runs : ParentRunID(r) = "" => tc[r].has /\ runState[r] = "done"

C7_RegistryEmptyAfterTerminal ==
    AllTopLevelEnded =>
        /\ \A e \in traces : ParentRunID(e[1]) # "" /\ runState[e[1]] # "done"
        /\ (\A r \in Runs : runState[r] = "done") => traces = {}

C7_Witness ==
    /\ AllTopLevelEnded
    /\ traces = {}
    /\ \A r \in Runs : ParentRunID(r) # "" => runState[r] = "idle"
    /\ last.phase = "canceled"

(***************************************************************************)
(* C8.  The registry is a partial map runID -> traceID.  After             *)
(* RegisterTrace(r, t) the registry holds exactly one entry for r, namely  *)
(* t (last value wins), the other keys are untouched and registering again *)
(* changes nothing; after UnregisterTrace(r) it holds no entry for r, the  *)
(* other keys are untouched, unregistering again changes nothing and an    *)
(* absent key leaves the registry as it was; LookupTrace changes nothing,  *)
(* reports what the registry holds and reports not found after an          *)
(* UnregisterTrace(r) with no RegisterTrace(r) since.  There is never more *)
(* than one entry per runID.                                               *)
(***************************************************************************)
EntriesOf(m, r) == {e \in m : e[1] = r}

OtherEntries(m, r) == {e \in m : e[1] # r}

C8_RegistryIsPartialMap ==
    /\ \A r \in RegKeys : Cardinality(EntriesOf(traces, r)) <= 1
    /\ rlast.op = "RegisterTrace" =>
          /\ EntriesOf(traces, rlast.runID) = {<<rlast.runID, rlast.traceID>>}
          /\ OtherEntries(traces, rlast.runID) = OtherEntries(rlast.before, rlast.runID)
          /\ RegisterTrace(traces, rlast.runID, rlast.traceID) = traces
          /\ LookupTrace(traces, rlast.runID) = [traceID |-> rlast.traceID, ok |-> TRUE]
    /\ rlast.op = "UnregisterTrace" =>
          /\ EntriesOf(traces, rlast.runID) = {}
          /\ OtherEntries(traces, rlast.runID) = OtherEntries(rlast.before, rlast.runID)
          /\ UnregisterTrace(traces, rlast.runID) = traces
          /\ EntriesOf(rlast.before, rlast.runID) = {} => traces = rlast.before
          /\ LookupTrace(traces, rlast.runID) = [traceID |-> "", ok |-> FALSE]
    /\ rlast.op = "LookupTrace" =>
          /\ traces = rlast.before
          /\ rlast.ok => EntriesOf(rlast.before, rlast.runID) = {<<rlast.runID, rlast.ret>>}
          /\ ~rlast.ok => EntriesOf(rlast.before, rlast.runID) = {} /\ rlast.ret = ""
          /\ rlast.afterUnregister => ~rlast.ok

\* A lookup of a run after its UnregisterTrace reports not found, while another
\* run is still registered.
C8_Witness ==
    /\ rlast.op = "LookupTrace"
    /\ rlast.afterUnregister
    /\ ~rlast.ok
    /\ traces # {}

(***************************************************************************)
(* C9.  Every history of concurrent RegisterTrace, LookupTrace and         *)
(* UnregisterTrace calls is linearizable: there is a sequential order of   *)
(* the calls, respecting the order of calls that do not overlap, in which  *)
(* every call returns what it returned in the history; so a LookupTrace(r) *)
(* returns not found or a trace ID that a RegisterTrace(r, _) ordered      *)
(* before it stored and no UnregisterTrace(r) ordered between removed.     *)
(***************************************************************************)
C9_RegistryLinearizable == lin # {}

\* A LookupTrace(r) that found an entry has returned while an UnregisterTrace(r)
\* of another goroutine was in progress.
C9_Witness ==
    \E t \in Threads, u \in Threads :
        /\ t # u
        /\ thr[t].op = "LookupTrace" /\ thr[t].pc = "idle" /\ thr[t].ok
        /\ thr[u].op = "UnregisterTrace" /\ thr[u].pc \in {"called", "effected"}
        /\ thr[u].runID = thr[t].runID

(***************************************************************************)
(* C10.  A payload whose every delivery attempt fails is attempted exactly *)
(* 4 times with waits of 1, 2 and 4 before the 2nd, 3rd and 4th attempt,   *)
(* then the failure is logged and the payload is dropped.                  *)
(***************************************************************************)
AllAttemptsFailed(t) == t.pc = "done" /\ t.attempts >= 1 /\ t.err # "nil"

IsPrefix(s, w) == Len(s) <= Len(w) /\ s = SubSeq(w, 1, Len(s))

C10_AllFailFourAttempts ==
    \A p \in Tasks :
        AllAttemptsFailed(tasks[p]) =>
            /\ tasks[p].attempts = 4
            /\ tasks[p].waits = <<1, 2, 4>>
            /\ tasks[p].errorsLogged = 1

\* The same, provided the timeout of the delivery task does not fire during a
\* retry wait; if it does, the task ends with fewer than 4 attempts, the waits
\* it completed being the first of 1, 2, 4, and the failure is logged once.
\* There is never a 5th attempt.
C10_AllFailFourAttemptsUnlessTimeout ==
    \A p \in Tasks :
        /\ tasks[p].attempts <= 4
        /\ IsPrefix(tasks[p].waits, <<1, 2, 4>>)
        /\ AllAttemptsFailed(tasks[p]) /\ tasks[p].err # "ctx_retry" =>
              /\ tasks[p].attempts = 4
              /\ tasks[p].waits = <<1, 2, 4>>
              /\ tasks[p].errorsLogged = 1
        /\ AllAttemptsFailed(tasks[p]) /\ tasks[p].err = "ctx_retry" =>
              /\ tasks[p].attempts < 4
              /\ tasks[p].errorsLogged = 1

C10_Witness ==
    \E p \in Tasks :
        /\ AllAttemptsFailed(tasks[p])
        /\ tasks[p].attempts = 4
        /\ tasks[p].waits = <<1, 2, 4>>
        /\ tasks[p].errorsLogged = 1

(***************************************************************************)
(* C11.  If attempt number k (1 <= k <= 4) is the first to receive a 2xx   *)
(* status, exactly k attempts are made for the payload, with the k - 1     *)
(* waits 1, 2, .. before them, and no wait or attempt follows: sendWithRetry *)
(* returns nil and nothing is logged as an error.                          *)
(***************************************************************************)
C11_SuccessStopsAtK ==
    \A p \in Tasks :
        LET t == tasks[p]
        IN  /\ t.succeededAt # 0 =>
                /\ t.succeededAt \in 1..4
                /\ t.attempts = t.succeededAt
                /\ Len(t.waits) = t.succeededAt - 1
                /\ IsPrefix(t.waits, <<1, 2, 4>>)
                /\ t.pc \in {"returned", "done"}
                /\ t.err = "nil"
                /\ t.warned = t.succeededAt - 1
                /\ t.errorsLogged = 0
            /\ t.err = "nil" => t.succeededAt # 0

\* The second attempt has succeeded: two attempts and one wait.
C11_Witness ==
    \E p \in Tasks :
        /\ tasks[p].pc = "done"
        /\ tasks[p].succeededAt = 2
        /\ tasks[p].attempts = 2
        /\ tasks[p].waits = <<1>>

(***************************************************************************)
(* C12.  The timeout of the delivery task governs the attempt sequence:    *)
(* once it has expired no new attempt is started, and a retry wait that it *)
(* interrupts ends the sequence with a network error, which is logged, the *)
(* payload being dropped with fewer than 4 attempts.                       *)
(***************************************************************************)
WaitInterrupted(t) ==
    /\ t.err = "ctx_retry" =>
          /\ t.pc \in {"returned", "done"}
          /\ t.elapsed = Timeout
          /\ t.attempts < 4
          /\ t.pc = "done" => t.errorsLogged = 1
    /\ t.pc = "waiting" /\ t.elapsed >= Timeout =>
          \A n \in WaitSteps(t, callerDone) : n.pc = "returned" /\ n.err = "ctx_retry"

C12_NoAttemptAfterTimeout ==
    \A p \in Tasks : tasks[p].late = 0 /\ WaitInterrupted(tasks[p])

\* The same, except that one attempt can be started with the timeout expired, when
\* the timeout expires at the moment a retry wait ends and the select takes the
\* timer: at most one per payload, it fails, and the wait after it is interrupted.
C12_TimeoutEndsSequence ==
    \A p \in Tasks :
        /\ tasks[p].late <= 1
        /\ tasks[p].late = 1 =>
              /\ tasks[p].succeededAt = 0
              /\ tasks[p].elapsed = Timeout
              /\ tasks[p].waits # <<>>
              /\ tasks[p].err \in {"request", "ctx_retry"}
        /\ WaitInterrupted(tasks[p])

\* A retry wait was interrupted by the timeout: dropped after fewer than 4 attempts.
C12_Witness ==
    \E p \in Tasks :
        /\ tasks[p].pc = "done"
        /\ tasks[p].err = "ctx_retry"
        /\ tasks[p].attempts < 4
        /\ tasks[p].errorsLogged = 1

(***************************************************************************)
(* C13.  Flush does not return while a payload submitted before it was     *)
(* called has an unfinished delivery task: when Flush has returned, the    *)
(* counter was zero and every such payload has been delivered or has been  *)
(* dropped (its failure logged).                                           *)
(***************************************************************************)
Delivered(t) == t.pc = "done" /\ t.err = "nil" /\ t.errorsLogged = 0

Dropped(t) == t.pc = "done" /\ t.err # "nil" /\ t.errorsLogged = 1

C13_FlushWaitsForSubmitted ==
    flush.pc = "returned" =>
        /\ flush.counter = 0
        /\ \A p \in flush.before : Delivered(tasks[p]) \/ Dropped(tasks[p])

\* Flush was called with the delivery of two payloads in progress, one was
\* delivered and one dropped, and Flush has returned.
C13_Witness ==
    /\ flush.pc = "returned"
    /\ flush.pending = 2
    /\ \E p \in flush.before : Delivered(tasks[p])
    /\ \E p \in flush.before : Dropped(tasks[p])

(***************************************************************************)
(* C14.  Flush eventually returns: every background delivery task ends, by *)
(* a success, by using up its 4 attempts or by its timeout, whatever the   *)
(* collector answers, so the counter comes back to zero and a Flush that   *)
(* is waiting returns.                                                     *)
(***************************************************************************)
C14_FlushEventuallyReturns ==
    /\ (flush.pc = "waiting") ~> (flush.pc = "returned")
    /\ \A p \in Tasks : (tasks[p].pc # "none") ~> (tasks[p].pc = "done")

\* Flush has returned after it was called with a task in its retry wait whose
\* timeout then ended the sequence.
C14_Witness ==
    /\ flush.pc = "returned"
    /\ flush.pending > 0
    /\ \E p \in flush.before : tasks[p].err = "ctx_retry"
    /\ wg = 0

(***************************************************************************)
(* C15.  Cancelling the context of the caller never cancels or shortens a  *)
(* delivery: whether the context of the caller is done or not, a delivery  *)
(* task in any state it can reach has the same next steps, for every       *)
(* duration and answer of the collector.  So two executions that differ    *)
(* only in whether and when the caller cancelled make the same attempts    *)
(* and end the same way.                                                   *)
(***************************************************************************)
C15_CallerCancelNoEffect ==
    \A p \in Tasks :
        /\ tasks[p].pc = "attempting" =>
              \A d \in AttemptDurations, resp \in Responses :
                  AttemptSteps(tasks[p], d, resp, TRUE) = AttemptSteps(tasks[p], d, resp, FALSE)
        /\ tasks[p].pc = "waiting" =>
              WaitSteps(tasks[p], TRUE) = WaitSteps(tasks[p], FALSE)
        /\ tasks[p].err = "ctx_retry" => tasks[p].elapsed = Timeout

\* The caller's context is done, and a payload submitted with it has been delivered
\* by its second attempt, after a retry wait that ran to its end.
C15_Witness ==
    /\ callerDone
    /\ \E p \in Tasks : Delivered(tasks[p]) /\ tasks[p].succeededAt = 2
    /\ \E p \in Tasks : tasks[p].pc = "waiting" /\ "timer" \in SelectReady(tasks[p].elapsed, tasks[p].backoff, callerDone)

(***************************************************************************)
(* Properties of the model client and its streams.                         *)
(***************************************************************************)
\* C17: on one stream, whatever the sequence of Recv and Close, at most one
\* payload is ever submitted.
C17_AtMostOnePayload == stream.submitted <= 1

\* The sum of one field of a sequence of usage deltas.
RECURSIVE SumDeltas(_, _)
SumDeltas(deltas, field) ==
    IF deltas = <<>> THEN 0 ELSE Head(deltas)[field] + SumDeltas(Tail(deltas), field)

\* C18: the payload a Close submits reports as inputTokenCount the sum of the
\* input tokens of the usage deltas received before it, as outputTokenCount the
\* sum of their output tokens, as totalTokenCount the sum of the two, and
\* isStreamed = true.
C18_StreamPayloadSumsDeltas ==
    (clast.op = "Close" /\ clast.task # "") =>
        LET pl == tasks[clast.task].payload
        IN  /\ pl.InputTokenCount = SumDeltas(stream.deltas, "InputTokens")
            /\ pl.OutputTokenCount = SumDeltas(stream.deltas, "OutputTokens")
            /\ pl.TotalTokenCount = pl.InputTokenCount + pl.OutputTokenCount
            /\ pl.IsStreamed = TRUE

\* The deltas (10,0), (0,5), (0,3) were received and Close submitted 10, 8, 18.
C18_Witness ==
    /\ clast.op = "Close"
    /\ clast.task # ""
    /\ stream.deltas = <<UsageDelta(10, 0), UsageDelta(0, 5), UsageDelta(0, 3)>>
    /\ tasks[clast.task].payload.InputTokenCount = 10
    /\ tasks[clast.task].payload.OutputTokenCount = 8
    /\ tasks[clast.task].payload.TotalTokenCount = 18
    /\ tasks[clast.task].payload.IsStreamed

\* C19: a Close on a stream that accumulated no token (no usage delta received,
\* or only deltas of zero input and zero output tokens) submits no payload and
\* leaves the counter of outstanding deliveries as it was.
C19_EmptyStreamSubmitsNothing ==
    (/\ clast.op = "Close"
     /\ SumDeltas(stream.deltas, "InputTokens") = 0
     /\ SumDeltas(stream.deltas, "OutputTokens") = 0)
    => /\ clast.task = ""
       /\ clast.wgAfter = clast.wgBefore
       /\ stream.submitted = 0

\* A stream that received a delta of zero tokens was closed while a delivery was
\* outstanding, and the counter stayed at one.
C19_Witness ==
    /\ clast.op = "Close"
    /\ stream.deltas = <<UsageDelta(0, 0)>>
    /\ clast.task = ""
    /\ clast.wgBefore = 1
    /\ clast.wgAfter = 1
    /\ wg = 1

(***************************************************************************)
(* Properties of the control flow of an agent run.                         *)
(***************************************************************************)
\* C16: PlanStart, PlanResume and Send call the wrapped operation and return
\* what it returned, and so do Complete, Stream, Recv and Close, whatever became
\* of the trace resolution and of the deliveries; a call that submitted a payload
\* returned with that delivery still counted as outstanding.
C16_InnerResultReturned ==
    /\ last.op \in {"PlanStart", "PlanResume", "Send"} =>
          last.innerCalled /\ last.ret = last.inner
    /\ clast.op \in {"Complete", "Stream", "Recv", "Close"} => clast.ret = clast.inner
    /\ clast.task # "" => clast.wgAfter = clast.wgBefore + 1

\* PlanStart missed the parent's trace and returned the planner's result; the
\* payload of Complete failed to serialize and that of Close ran into the
\* timeout; Close returned the result of the inner Close.
C16_Witness ==
    /\ last.op = "PlanStart"
    /\ last.warned
    /\ last.ret = "ok"
    /\ clast.op = "Close"
    /\ clast.ret = "ok"
    /\ clast.task = "p2"
    /\ tasks["p1"].pc = "done"
    /\ tasks["p1"].err = "marshal"
    /\ tasks["p1"].payload.IsStreamed = FALSE
    /\ tasks["p2"].pc = "done"
    /\ tasks["p2"].err = "ctx_retry"
    /\ tasks["p2"].errorsLogged = 1

(***************************************************************************)
(* Properties of the order of trace resolution and LLM calls.              *)
(***************************************************************************)
\* C20: every PlanStart and PlanResume resolves the trace before it calls the
\* inner planner: the context handed to the inner planner carries the run's
\* RunID as TransactionID and the TraceID the resolution registered for that
\* RunID, and every payload built for a call with that context has that
\* transactionId and that traceId.
C20_PayloadsCarryResolvedTrace ==
    /\ \A r \in Runs :
          runState[r] = "active" =>
              /\ tc[r].has
              /\ tc[r].TransactionID = r
              /\ resolved[r] # ""
              /\ tc[r].TraceID = resolved[r]
    /\ last.op \in {"PlanStart", "PlanResume"} =>
          last.innerCalled /\ EntryOf(traces, last.run) = resolved[last.run]
    /\ (last.op = "Complete" /\ payload.has) =>
          /\ payload.transactionId = last.run
          /\ payload.traceId = resolved[last.run]

\* The child run R2 resolved the trace of its parent; its registry entry was
\* then overwritten by a child-linked event; the payload of its LLM call still
\* carries R2 and the trace its resolution registered.
C20_Witness ==
    /\ last.op = "Complete"
    /\ last.run = "R2"
    /\ payload.has
    /\ payload.transactionId = "R2"
    /\ payload.traceId = "uuid-1"
    /\ resolved["R2"] = "uuid-1"
    /\ EntryOf(traces, "R2") = "ext-1"

(***************************************************************************)
(* Properties of the sink.                                                 *)
(***************************************************************************)
\* C21: a Send of a workflow event whose phase is completed, failed or canceled
\* removes the registry entry of the event's run and no other entry; a Send of
\* a workflow event of another phase, or of a tool-start, tool-end, usage or
\* unknown event, leaves the registry as it was.
C21_SendRegistryFrame ==
    [][last'.op = "Send" =>
          IF last'.event = "Workflow"
          THEN IF last'.phase \in {"completed", "failed", "canceled"}
               THEN traces' = {e \in traces : e[1] # last'.run}
               ELSE traces' = traces
          ELSE last'.event # "ChildRunLinked" => traces' = traces]_vars

\* The canceled event of the child run R2, which had resolved its trace, took
\* its entry away and left that of R1.
C21_Witness ==
    /\ last.op = "Send"
    /\ last.event = "Workflow"
    /\ last.phase = "canceled"
    /\ last.run = "R2"
    /\ resolved["R2"] # ""
    /\ EntryOf(traces, "R2") = ""
    /\ EntryOf(traces, "R1") # ""

(***************************************************************************)
(* Properties of the payload fields.                                       *)
(***************************************************************************)
\* C22: every tenant field of a delivered payload is the override, that of the
\* payload handed to SendAsync or that of the MeteringContext on the request
\* context, when there is one, and the default of the Config only when there
\* is none.
C22_OverrideBeatsDefault ==
    \A p \in Tasks :
        (tasks[p].pc = "done" /\ tasks[p].err = "nil") =>
            \A f \in TenantFields :
                LET t == tasks[p]
                    overrides == ({t.given[f]} \cup
                                  (IF t.reqCtx.has THEN {t.reqCtx[f]} ELSE {})) \ {""}
                IN  IF overrides # {} THEN t.payload[f] \in overrides
                    ELSE t.payload[f] = Cfg[f]

\* C23: a payload of a client that does not capture prompts has an empty
\* systemPrompt, inputMessages and outputResponse, for Complete and for a
\* stream, and is the payload the same call would have built for any other
\* request text and response text.
C23_NoPromptsWithoutCapture ==
    /\ ~stream.capturePrompts => stream.responseText = <<>>
    /\ (clast.op = "Complete" /\ clast.task # "" /\ ~clast.capture) =>
          LET pl == tasks[clast.task].payload
          IN  /\ pl.SystemPrompt = <<>>
              /\ pl.InputMessages = <<>>
              /\ pl.OutputResponse = <<>>
              /\ \A req \in Requests, content \in ResponseTexts :
                    Stamp(PromptFields(FALSE,
                                       CompletePayload(clast.usage, clast.stopReason, clast.ctx),
                                       req, content)) = pl
    /\ (clast.op = "Close" /\ clast.task # "" /\ ~stream.capturePrompts) =>
          LET pl == tasks[clast.task].payload
          IN  /\ pl.SystemPrompt = <<>>
              /\ pl.InputMessages = <<>>
              /\ pl.OutputResponse = <<>>
              /\ \A req \in Requests, text \in ResponseTexts :
                    Stamp(ClosePayloadWithPrompts(
                              [stream EXCEPT !.req = req, !.responseText = text])) = pl

\* A capturing client completed a call and its payload holds the texts; a
\* stream of a client that does not capture received both messages and was
\* closed, and its payload holds none.
C23_Witness ==
    /\ tasks["p1"].payload.IsStreamed = FALSE
    /\ tasks["p1"].payload.InputMessages = InputMessagesJSON(Request(<<"be brief">>, <<"secret A">>))
    /\ tasks["p1"].payload.OutputResponse = <<"answer A">>
    /\ clast.op = "Close"
    /\ clast.task = "p2"
    /\ ~stream.capturePrompts
    /\ stream.req.User = <<"secret A">>
    /\ stream.rest = <<>>
    /\ stream.recvs = 2
    /\ tasks["p2"].payload.IsStreamed
    /\ tasks["p2"].payload.OutputResponse = <<>>

\* C24: every payload built for a Complete or a stream carries the squad of the
\* calling agent: the override of the Config, else the prefix of the agent ID
\* before its first ".".
C24_PayloadCarriesSquad ==
    \A p \in Tasks :
        tasks[p].given.built => tasks[p].payload.SquadID = ResolveSquad(CfgSquad, AgentID)

\* C25: in every payload totalTokenCount = inputTokenCount + outputTokenCount;
\* the payload of a Complete reports the input and output tokens of the usage,
\* and its cache-read and cache-write tokens in their own fields, outside the
\* total.
C25_TotalIsInputPlusOutput ==
    /\ \A p \in Tasks :
          tasks[p].given.built =>
              tasks[p].payload.TotalTokenCount =
                  tasks[p].payload.InputTokenCount + tasks[p].payload.OutputTokenCount
    /\ (clast.op = "Complete" /\ clast.task # "") =>
          LET pl == tasks[clast.task].payload
          IN  /\ pl.InputTokenCount = clast.usage.InputTokens
              /\ pl.OutputTokenCount = clast.usage.OutputTokens
              /\ pl.TotalTokenCount = clast.usage.InputTokens + clast.usage.OutputTokens
              /\ pl.CacheReadTokenCount = clast.usage.CacheReadTokens
              /\ pl.CacheCreationTokenCount = clast.usage.CacheWriteTokens

\* A response with 7 tokens read from the cache and 2 written, for which the
\* provider reports a total of 24, was metered with a total of 15.
C25_Witness ==
    /\ clast.op = "Complete"
    /\ clast.task # ""
    /\ clast.usage.TotalTokens = 24
    /\ tasks[clast.task].payload.TotalTokenCount = 15
    /\ tasks[clast.task].payload.CacheReadTokenCount = 7
    /\ tasks[clast.task].payload.CacheCreationTokenCount = 2

\* The last non-empty stop reason of a sequence of stop reasons, "" when it has none.
RECURSIVE LastNonEmpty(_)
LastNonEmpty(reasons) ==
    IF reasons = <<>> THEN ""
    ELSE IF reasons[Len(reasons)] # "" THEN reasons[Len(reasons)]
    ELSE LastNonEmpty(SubSeq(reasons, 1, Len(reasons) - 1))

\* The stop reason a payload is to report for the reason of the provider.
Normalized(providerReason) ==
    IF providerReason \in {"length", "max_tokens"} THEN "TOKEN_LIMIT" ELSE "END"

\* C26: the stop reason of every payload is a value of the enumeration: TOKEN_LIMIT
\* for "length" and "max_tokens", END for every other reason of the provider, known
\* or not; for a stream the reason normalized is the last non-empty stop reason
\* received.
C26_StopReasonNormalized ==
    /\ \A p \in Tasks : tasks[p].given.built => tasks[p].payload.StopReason \in StopReasons
    /\ \A r \in ProviderReasons : MapStopReason(r) = Normalized(r)
    /\ (clast.op = "Complete" /\ clast.task # "") =>
          tasks[clast.task].payload.StopReason = Normalized(clast.stopReason)
    /\ (clast.op = "Close" /\ clast.task # "") =>
          tasks[clast.task].payload.StopReason = Normalized(LastNonEmpty(stream.reasons))

\* A stream gave "length" and then a chunk without a stop reason, and its payload
\* reports TOKEN_LIMIT; a call that ended with an unknown reason reported END.
C26_Witness ==
    /\ tasks["p1"].given.IsStreamed = FALSE
    /\ tasks["p1"].payload.StopReason = "END"
    /\ clast.op = "Close"
    /\ clast.task = "p2"
    /\ stream.reasons = <<"length", "">>
    /\ tasks["p2"].payload.StopReason = "TOKEN_LIMIT"

(***************************************************************************)
(* Properties of the delivery of a payload that cannot be serialized, and  *)
(* of the counter.                                                         *)
(***************************************************************************)
\* C27: a payload whose serialization fails is never sent and never waited for:
\* no attempt, no backoff wait and no warning; its task returns the error, which
\* is logged once when the task ends, and the task ends with the counter
\* decremented.
C27_SerializationFailureDropped ==
    \A p \in Tasks :
        tasks[p].err = "marshal" =>
            /\ tasks[p].pc \in {"returned", "done"}
            /\ tasks[p].attempts = 0
            /\ tasks[p].waits = <<>>
            /\ tasks[p].warned = 0
            /\ tasks[p].succeededAt = 0
            /\ tasks[p].errorsLogged = IF tasks[p].pc = "done" THEN 1 ELSE 0
            /\ tasks[p].pc = "done" =>
                  wg = Cardinality({q \in Tasks \ {p} : tasks[q].pc \notin {"none", "done"}})

\* Both payloads failed to serialize and were dropped; the counter is back at zero.
C27_Witness ==
    /\ \A p \in Tasks : tasks[p].pc = "done" /\ tasks[p].err = "marshal"
    /\ \A p \in Tasks : tasks[p].errorsLogged = 1 /\ tasks[p].attempts = 0
    /\ wg = 0

\* C28: whatever the event's type, and also without a Meter, Send calls the inner
\* sink exactly once, with the event it received, after its own registry update
\* for that event (the inner sink is called on the updated registry), and
\* returns the inner sink's result.
C28_SinkForwardsOnce ==
    last.op = "Send" =>
        /\ last.innerCalls = 1
        /\ last.innerEvent = [type |-> last.event, run |-> last.run,
                              phase |-> last.phase, child |-> last.child]
        /\ last.innerSaw = traces
        /\ last.ret = last.inner

\* A sink with a Meter forwarded a terminal workflow event whose run it had just
\* unregistered, and returned the inner sink's error.
C28_Witness ==
    /\ last.op = "Send" /\ last.hasMeter
    /\ last.event = "Workflow" /\ RunEnded(last.phase)
    /\ resolved[last.run] # "" /\ EntryOf(traces, last.run) = ""
    /\ last.innerCalls = 1 /\ last.ret = "err"

\* C29: a plan call whose context already carries a TraceContext with a non-empty
\* trace ID takes the ambient branch whatever the registry holds for the parent:
\* the attached TraceContext has the caller's trace ID and trace name, its parent
\* transaction is the parent run ID (empty for a top-level run), and the registry
\* maps the run to the inherited trace ID.
C29_AmbientContextInherited ==
    (last.op \in {"PlanStart", "PlanResume"} /\ last.ctxTrace # "") =>
        /\ last.branch = "ambient"
        /\ tc[last.run].TraceID = last.ctxTrace
        /\ tc[last.run].TraceName = TraceNameOf(last.ctxTrace)
        /\ tc[last.run].ParentTxnID = ParentRunID(last.run)
        /\ EntryOf(traces, last.run) = last.ctxTrace

\* A child run planned with the application's trace on its context while the
\* registry held another trace for its parent.
C29_Witness ==
    /\ last.op = "PlanStart" /\ last.run = "R2" /\ last.ctxTrace = "ext-1"
    /\ last.parentTrace \notin {"", "ext-1"}
    /\ tc["R2"].TraceID = "ext-1" /\ tc["R2"].TraceName = "checkout"
    /\ tc["R2"].ParentTxnID = "R1" /\ EntryOf(traces, "R2") = "ext-1"

\* The payloads SendAsync has counted and whose goroutine has not finished.
Outstanding == {p \in Tasks : tasks[p].pc \notin {"none", "done"}}

\* C30: the outstanding-work counter is never negative and equals the number of
\* payloads SendAsync has counted and whose goroutine has not finished: a payload
\* is counted from the moment SendAsync returns, and its goroutine takes it off
\* the count once, however it ends (delivered, retries used up, timeout,
\* serialization failure).
C30_CounterCountsOutstanding ==
    /\ wg >= 0
    /\ wg = Cardinality(Outstanding)

\* One goroutine has ended on a serialization failure and was taken off the
\* count; the other payload is counted, its goroutine between two attempts.
C30_Witness ==
    /\ wg = 1
    /\ \E p \in Tasks : tasks[p].pc = "done" /\ tasks[p].attempts = 0 /\ tasks[p].err # "nil"
    /\ \E p \in Tasks : tasks[p].pc = "waiting" /\ tasks[p].attempts = 2

\* C31: every resolution, on each of its four branches (ambient, top-level, child
\* hit, child miss), ends with a TraceContext attached whose trace ID is not
\* empty, whose transaction is the run and whose trace type is "agent", and with
\* the registry mapping the run to exactly the attached trace ID.
C31_ResolutionRegistersAttached ==
    last.op \in {"PlanStart", "PlanResume"} =>
        /\ last.branch \in {"ambient", "toplevel", "hit", "miss"}
        /\ tc[last.run].has
        /\ tc[last.run].TraceID # ""
        /\ tc[last.run].TransactionID = last.run
        /\ tc[last.run].TraceType = "agent"
        /\ {e \in traces : e[1] = last.run} = {<<last.run, tc[last.run].TraceID>>}

\* A child run resumed after its parent's entry was dropped: the miss branch
\* replaced the trace the run was registered under by a new one, attached and
\* registered alike.
C31_Witness ==
    /\ last.op = "PlanResume" /\ last.branch = "miss"
    /\ last.ownTrace # ""
    /\ tc[last.run].TraceID # last.ownTrace
    /\ <<last.run, tc[last.run].TraceID>> \in traces
    /\ tc[last.run].TransactionID = last.run /\ tc[last.run].TraceType = "agent"

\* C32: once the sink has processed the terminal workflow event of a run, the
\* registry holds no entry for that run, however the event interleaves with the
\* run's own resolution and with its parent's child-linked event.
C32_NoEntryAfterTerminal ==
    \A r \in Runs : runState[r] = "done" => EntryOf(traces, r) = ""

\* A call of Complete or Stream that the inner client answered with an error.
InnerErrorStep ==
    /\ clast' # clast
    /\ clast'.op \in {"Complete", "Stream"}
    /\ clast'.inner = "err"

\* C33: a Complete or Stream whose inner call returns an error builds and submits
\* no payload, opens no stream, leaves the outstanding-work counter, the delivery
\* tasks and the registry as they were and returns the inner error; and a Complete
\* that submitted a payload did so after its inner call had returned a response.
C33_InnerErrorSubmitsNothing ==
    /\ [][InnerErrorStep =>
            /\ clast'.ret = "err" /\ clast'.task = ""
            /\ tasks' = tasks /\ wg' = wg
            /\ traces' = traces /\ stream' = stream]_vars
    /\ []((clast.op = "Complete" /\ clast.task # "") => clast.inner = "ok")

\* Complete returned the inner client's error while the run was registered and
\* the payload of an earlier call was still being delivered: nothing was added.
C33_Witness ==
    /\ clast.op = "Complete" /\ clast.inner = "err" /\ clast.ret = "err"
    /\ clast.task = "" /\ clast.wgBefore = 1 /\ wg = 1
    /\ EntryOf(traces, AgentRun) # ""
    /\ tasks["p1"].pc = "attempting" /\ tasks["p2"].pc = "none"

\* The model ID of a client the wrapper returns for id: the configured model
\* name, or id if none is configured.
ConfiguredModel(id) == IF wrapped.modelName # "" THEN wrapped.modelName ELSE id

\* What every ModelClient call returns: (nil, false) when the inner context has
\* no client for id; else a client built by this very call around the inner
\* context's client for id, with the configured model name or id as its model ID.
EveryCallWraps ==
    wlast.op = "ModelClient" =>
        /\ wlast.ok = wlast.innerOk
        /\ wlast.innerOk = (wlast.id \in InnerModelIDs)
        /\ wlast.ok =>
              /\ ~wlast.client.nil
              /\ wlast.client.inner = wlast.id
              /\ wlast.client.modelID = ConfiguredModel(wlast.id)
              /\ Len(wrapped.clients) = wlast.before + 1
              /\ wrapped.clients[Len(wrapped.clients)] = wlast.client
        /\ ~wlast.ok =>
              /\ wlast.client = NilClient
              /\ Len(wrapped.clients) = wlast.before

====
